---- MODULE Spec2Model ----
(***************************************************************************)
(* State-machine model of the cloud-browser backend control plane:         *)
(*   ContainerService  (warm container pool, ports, health loop, restart)  *)
(*   SessionService    (sessions, expiry loop, rate limit, IP policy)      *)
(*   QueueService      (admission queue and its background worker)         *)
(*   SessionController / QueueController / AdminController entry points    *)
(*                                                                         *)
(* The backend runs on one Node.js event loop.  A handler runs without     *)
(* interruption until it awaits a timer or an I/O call (container runtime, *)
(* HTTP probe); an await on a call that itself awaits no timer or I/O      *)
(* (acquireContainer, createSession) resumes in the same turn.  Every      *)
(* action below is one such uninterrupted run; a handler that awaits I/O   *)
(* is split at the await and its position is kept in the state.            *)
(***************************************************************************)
EXTENDS Integers, Sequences, FiniteSets, TLC

(***************************************************************************)
(* Bounds of the model.                                                    *)
(***************************************************************************)
MaxCid == 3            \* container ids that can ever be handed out
PortSpan == 3          \* number of ports in [portRangeStart, portRangeEnd]
PoolSizeInit == 1      \* POOL_SIZE the service starts with
MaxSid == 2            \* session ids that can ever be handed out
MaxEid == 3            \* queue entry ids that can ever be handed out
MaxTime == 2           \* clock ticks
MaxDay == 1            \* calendar days after the first
MaxEnds == 2           \* endSession calls recorded in the rolling window
SessionDurationInit == 1   \* SESSION_DURATION, in clock ticks
RateLimitPerDay == 2   \* RATE_LIMIT_PER_DAY
RateLimitStrict == 1   \* RATE_LIMIT_PER_DAY of a deployment that allows one session a day
MaxPoolSize == 2       \* largest poolSize an admin sets
MaxClients == 2        \* sockets that ever connect to the session gateway
GraceTicks == 1        \* the 35 s abandonment grace period, in clock ticks
WarningAt == 1         \* the remaining time (30 s) at which session:warning is sent, in ticks
LoopPeriod == 2        \* the 5 s period of the expiry loop, in clock ticks
MaxDuration == 2       \* longest session duration an admin sets, in clock ticks
SubTicks == 2          \* sub-ticks per clock tick (the resolution of the broadcast's phase)
Jitter == 1            \* sub-ticks by which an interval timer may fire late
MaxWarned == 2         \* cap of the count of session:warning events kept per socket

(***************************************************************************)
(* Program constants.                                                      *)
(***************************************************************************)
PortRangeStart == 4000
DurationWindow == 20

PortRangeEnd == PortRangeStart + PortSpan - 1
Ports == PortRangeStart..PortRangeEnd
Cids == 1..MaxCid
Sids == 1..MaxSid
Eids == 1..MaxEid
Clients == 1..MaxClients

\* Raw client addresses (IPv4, as their four octets).
IP1 == <<10, 0, 0, 5>>
IP2 == <<10, 0, 0, 6>>
IPs == {IP1, IP2}

\* URLs as submitted: a scheme prefix (possibly none) and the rest.
UrlHttps == [scheme |-> "https://", rest |-> <<"a.com">>, dot |-> TRUE, space |-> FALSE]
UrlBare == [scheme |-> "", rest |-> <<"b.com">>, dot |-> TRUE, space |-> FALSE]
UrlFile == [scheme |-> "file:", rest |-> <<"///etc/passwd">>, dot |-> FALSE, space |-> FALSE]
UrlFileUpper == [scheme |-> "FILE:", rest |-> <<"///etc/passwd">>, dot |-> FALSE, space |-> FALSE]
Urls == {UrlHttps, UrlBare, UrlFile, UrlFileUpper}

VARIABLES
    cs,     \* ContainerService: pool, container objects, usedPorts, poolSize, calls in flight
    ss,     \* SessionService: sessions, counters, policy sets, duration window
    qs,     \* QueueService: queue, entries, ipQueueMap, onUpdateCallbacks
    log,    \* LoggingService: per session, the logSessionStart / logSessionEnd calls
    hc,     \* position of the running healthCheck()
    rs,     \* position of the running restartPool()
    exp,    \* position of the running checkExpiredSessions()
    now,    \* clock
    day,    \* calendar date
    gw,     \* SessionGateway: its maps, pending grace timers, events sent to sockets
    clk     \* interval timers against the clock: expiry is the time the expiry loop
            \* last fired, frac the part of the current tick that has passed (in
            \* sub-ticks), sinceBroadcast the sub-ticks since the broadcast last fired

vars == <<cs, ss, qs, log, hc, rs, exp, now, day, gw, clk>>

(***************************************************************************)
(* Helpers.                                                                *)
(***************************************************************************)
Min(S) == CHOOSE x \in S : \A y \in S : x <= y
Range(s) == {s[i] : i \in 1..Len(s)}
SeqRemove(s, x) == SelectSeq(s, LAMBDA y : y /= x)
IndexOf(s, x) == IF x \in Range(s) THEN Min({i \in 1..Len(s) : s[i] = x}) ELSE 0

(***************************************************************************)
(* ContainerService                                                        *)
(***************************************************************************)
NoContainer == [status |-> "none", port |-> 0, sessionId |-> 0]

InPool(c, id) == id \in Range(c.pool)

\* uuidv4().slice(0, 8): an id no container had before (0: the bound is reached).
FreshCid(c) ==
    LET free == {id \in Cids : c.cont[id].status = "none"}
    IN  IF free = {} THEN 0 ELSE Min(free)

\* getAvailablePort: lowest port not in usedPorts, which it reserves; port 0: throws.
GetAvailablePort(c) ==
    LET free == Ports \ c.usedPorts
    IN  IF free = {}
        THEN [cs |-> c, port |-> 0]
        ELSE [cs |-> [c EXCEPT !.usedPorts = @ \cup {Min(free)}], port |-> Min(free)]

ReleasePort(c, port) == [c EXCEPT !.usedPorts = @ \ {port}]

PoolDelete(c, id) == [c EXCEPT !.pool = SeqRemove(@, id)]

\* createWarmContainer up to its first await (docker.createContainer).  When no
\* port is free it throws before anything is reserved.  Past MaxCid the runtime
\* refuses the container: createContainer rejects and the reserved port stays in
\* usedPorts, as in the code.
CreateWarmContainer(c) ==
    LET g == GetAvailablePort(c)
        id == FreshCid(c)
    IN  IF g.port = 0 THEN c
        ELSE IF id = 0 THEN g.cs
        ELSE [g.cs EXCEPT !.cont[id] = [status |-> "creating", port |-> g.port, sessionId |-> 0],
                          !.creating = @ \cup {id}]

RECURSIVE CreateContainers(_, _)
CreateContainers(c, n) ==
    IF n <= 0 THEN c ELSE CreateContainers(CreateWarmContainer(c), n - 1)

\* createWarmContainer after createContainer/start resolved: the object enters the
\* pool as booting and the readiness probe starts.
CreateWarmContainerDone(c, id) ==
    [c EXCEPT !.cont[id].status = "booting",
              !.pool = Append(@, id),
              !.creating = @ \ {id},
              !.probing = @ \cup {id}]

\* createContainer or start rejected: nothing enters the pool, the port stays reserved.
CreateWarmContainerFailed(c, id) ==
    [c EXCEPT !.cont[id].status = "failed", !.creating = @ \ {id}]

\* waitForReady(port).then(...): booting becomes warm.
ProbeResolved(c, id) ==
    [c EXCEPT !.probing = @ \ {id},
              !.cont[id].status = IF @ = "booting" THEN "warm" ELSE @]

\* waitForReady rejected after the 120 s ceiling: logged only.
ProbeRejected(c, id) == [c EXCEPT !.probing = @ \ {id}]

GetWarmCount(c) == Cardinality({id \in Range(c.pool) : c.cont[id].status = "warm"})

\* acquireContainer that hands out the first warm container without marking it.
AcquireContainerNoFlip(c, sessionId) ==
    LET warm == {i \in 1..Len(c.pool) : c.cont[c.pool[i]].status = "warm"}
    IN  IF warm = {}
        THEN [cs |-> c, ret |-> 0]
        ELSE [cs |-> [c EXCEPT !.cont[c.pool[Min(warm)]].sessionId = sessionId],
              ret |-> c.pool[Min(warm)]]

\* acquireContainer: the first warm container in pool order becomes active.
AcquireContainer(c, sessionId) ==
    LET warm == {i \in 1..Len(c.pool) : c.cont[c.pool[i]].status = "warm"}
    IN  IF warm = {}
        THEN [cs |-> c, ret |-> 0]
        ELSE LET id == c.pool[Min(warm)]
             IN  [cs |-> [c EXCEPT !.cont[id].status = "active",
                                   !.cont[id].sessionId = sessionId],
                  ret |-> id]

\* releaseContainer that hands the container back to the pool as warm.
ReleaseContainerRecycle(c, poolId) ==
    IF ~InPool(c, poolId)
    THEN [cs |-> c, awaiting |-> FALSE]
    ELSE [cs |-> [c EXCEPT !.cont[poolId].status = "warm"], awaiting |-> FALSE]

\* releaseContainer up to its await on stop/remove.
ReleaseContainer(c, poolId) ==
    IF ~InPool(c, poolId)
    THEN [cs |-> c, awaiting |-> FALSE]
    ELSE [cs |-> CreateWarmContainer([c EXCEPT !.cont[poolId].status = "destroying",
                                               !.releasing[poolId] = @ + 1]),
          awaiting |-> TRUE]

\* releaseContainer after stop/remove settled (either way): free the port of the
\* captured container object and delete the pool entry.
ReleaseContainerDone(c, poolId) ==
    PoolDelete(ReleasePort([c EXCEPT !.releasing[poolId] = @ - 1], c.cont[poolId].port), poolId)

\* A container object that left the pool and that no suspended call still holds
\* (createWarmContainer, the probe's callback, releaseContainer, healthCheck,
\* restartPool, the endSession awaited by the expiry loop) is unreachable: the
\* program can read none of its fields any more, and the model forgets them.
Collected == [status |-> "collected", port |-> 0, sessionId |-> 0]

Held(c, h, r, e) ==
    Range(c.pool) \cup c.creating \cup c.probing
    \cup {id \in Cids : c.releasing[id] > 0}
    \cup (IF h.pc = "inspect" THEN {h.cur} ELSE {})
    \cup (IF r.pc = "stop" THEN {r.cur} ELSE {})
    \cup (IF e.pc = "await" THEN {e.cid} ELSE {})

Collect(c, h, r, e) ==
    [c EXCEPT !.cont = [id \in Cids |->
        IF c.cont[id].status = "none" \/ id \in Held(c, h, r, e)
        THEN c.cont[id] ELSE Collected]]

\* The next entry a running `for (const [id, c] of this.pool)` visits: Map iteration
\* is live and in insertion order, so it is the first pool entry not yet visited
\* (0: the iteration is over).
NextUnvisited(c, visited) ==
    LET left == {i \in 1..Len(c.pool) : c.pool[i] \notin visited}
    IN  IF left = {} THEN 0 ELSE c.pool[Min(left)]

HcIdle == [pc |-> "idle", cur |-> 0, visited |-> {}]

\* healthCheck: the sweep from the current iteration point to its next await
\* (inspect of the next container that is not destroying), or to the end of the
\* handler ("ensure pool size is maintained").
RECURSIVE HealthCheckSweep(_, _)
HealthCheckSweep(c, visited) ==
    LET id == NextUnvisited(c, visited)
    IN  IF id = 0
        THEN [cs |-> CreateContainers(c, c.poolSize - Len(c.pool)), hc |-> HcIdle]
        ELSE IF c.cont[id].status = "destroying"
        THEN HealthCheckSweep(c, visited \cup {id})
        ELSE [cs |-> c,
              hc |-> [pc |-> "inspect", cur |-> id,
                      visited |-> (visited \cup {id}) \cap Range(c.pool)]]

\* healthCheck after inspect() settled for container h.cur.
\*   "running": nothing to do;  "exited": info.State.Running is false;
\*   "error": inspect threw.
HealthCheckInspected(c, h, result) ==
    IF result = "running" THEN HealthCheckSweep(c, h.visited)
    ELSE IF result = "exited"
    THEN [cs |-> PoolDelete(ReleasePort([c EXCEPT !.cont[h.cur].status = "destroying"],
                                        c.cont[h.cur].port), h.cur),
          hc |-> [h EXCEPT !.pc = "remove"]]
    ELSE HealthCheckSweep(
            CreateWarmContainer(PoolDelete(ReleasePort(c, c.cont[h.cur].port), h.cur)),
            h.visited)

\* healthCheck after remove({force: true}) of the dead container settled.
HealthCheckRemoved(c, h) == HealthCheckSweep(CreateWarmContainer(c), h.visited)

RsIdle == [pc |-> "idle", cur |-> 0, visited |-> {}]

\* initializePool: poolSize calls of createWarmContainer.
InitializePool(c) == CreateContainers(c, c.poolSize)

\* restartPool: the sweep over the pool to its next await (stop/remove of the
\* next warm container), or to initializePool at the end.
RECURSIVE RestartPoolSweep(_, _)
RestartPoolSweep(c, visited) ==
    LET id == NextUnvisited(c, visited)
    IN  IF id = 0
        THEN [cs |-> InitializePool(c), rs |-> RsIdle]
        ELSE IF c.cont[id].status /= "warm"
        THEN RestartPoolSweep(c, visited \cup {id})
        ELSE [cs |-> [c EXCEPT !.cont[id].status = "destroying"],
              rs |-> [pc |-> "stop", cur |-> id,
                      visited |-> (visited \cup {id}) \cap Range(c.pool)]]

\* restartPool after stop/remove of container r.cur settled.
RestartPoolStopped(c, r) ==
    RestartPoolSweep(PoolDelete(ReleasePort(c, c.cont[r.cur].port), r.cur), r.visited)

\* setPoolSize(newSize)
SetPoolSize(c, newSize) ==
    LET c1 == [c EXCEPT !.poolSize = newSize]
    IN  IF GetWarmCount(c1) < newSize
        THEN CreateContainers(c1, newSize - Len(c1.pool))
        ELSE c1

\* Every createWarmContainer in flight resolves and every readiness probe
\* succeeds, oldest first.
RECURSIVE CreationsSettle(_)
CreationsSettle(c) ==
    IF c.creating /= {} THEN CreationsSettle(CreateWarmContainerDone(c, Min(c.creating)))
    ELSE IF c.probing /= {} THEN CreationsSettle(ProbeResolved(c, Min(c.probing)))
    ELSE c

\* One whole run of healthCheck in which every inspect reports a running
\* container, from the position r = [cs, hc] of the run.
RECURSIVE HealthTickFrom(_)
HealthTickFrom(r) ==
    IF r.hc.pc = "idle" THEN r.cs
    ELSE HealthTickFrom(HealthCheckInspected(r.cs, r.hc, "running"))

HealthTick(c) == HealthTickFrom(HealthCheckSweep(c, {}))

(***************************************************************************)
(* SessionService                                                          *)
(* Operators that reach into the pool or the log sink take and return the  *)
(* record w = [cs, ss, log].                                               *)
(***************************************************************************)
NoSession == [status |-> "none", poolId |-> 0, port |-> 0, url |-> UrlHttps,
              clientIp |-> <<>>, startedAt |-> 0, expiresAt |-> 0]

\* getAnonymizedIp, IPv4 branch: the fourth octet is replaced by "x".
GetAnonymizedIp(ip) == [i \in 1..Len(ip) |-> IF i = 4 THEN "x" ELSE ToString(ip[i])]

\* resetDailyStats
ResetDailyStats(s) ==
    IF s.lastResetDate /= day
    THEN [s EXCEPT !.sessionsToday = 0,
                   !.peakConcurrent = 0,
                   !.ipSessionCount = [ip \in IPs |-> 0],
                   !.lastResetDate = day]
    ELSE s

GetActiveSessions(s) == {id \in Sids : s.sessions[id].status = "active"}

\* updatePeakConcurrent
UpdatePeakConcurrent(s) ==
    IF Cardinality(GetActiveSessions(s)) > s.peakConcurrent
    THEN [s EXCEPT !.peakConcurrent = Cardinality(GetActiveSessions(s))]
    ELSE s

\* checkRateLimit
CheckRateLimit(s, clientIp) ==
    LET s1 == ResetDailyStats(s)
        remaining == s1.rateLimitPerDay - s1.ipSessionCount[clientIp]
    IN  IF clientIp \in s1.blockedIps
        THEN [ss |-> s1, allowed |-> FALSE, remaining |-> 0, blocked |-> TRUE]
        ELSE IF clientIp \in s1.whitelistedIps
        THEN [ss |-> s1, allowed |-> TRUE, remaining |-> s1.rateLimitPerDay, blocked |-> FALSE]
        ELSE [ss |-> s1, allowed |-> remaining > 0,
              remaining |-> IF remaining > 0 THEN remaining ELSE 0, blocked |-> FALSE]

\* getRateLimitStats(): one row per IP that has a counter, the IP anonymized.
GetRateLimitStats(s) ==
    LET s1 == ResetDailyStats(s)
    IN  {[ip |-> GetAnonymizedIp(ip), count |-> s1.ipSessionCount[ip]] :
            ip \in {i \in IPs : s1.ipSessionCount[i] > 0}}

\* getRateLimitedIps(): the IPs at or over the daily limit, anonymized.
GetRateLimitedIps(s) ==
    LET s1 == ResetDailyStats(s)
    IN  {GetAnonymizedIp(ip) : ip \in {i \in IPs : s1.ipSessionCount[i] >= s1.rateLimitPerDay}}

\* getBlockedIps() and getWhitelistedIps(): the sets as stored.
GetBlockedIps(s) == s.blockedIps

GetWhitelistedIps(s) == s.whitelistedIps

\* setSessionDuration(duration)
SetSessionDuration(s, duration) == [s EXCEPT !.sessionDuration = duration]

\* setPaused(paused)
SetPaused(s, paused) == [s EXCEPT !.paused = paused]

\* whitelistIp(ip)
WhitelistIp(s, ip) ==
    [s EXCEPT !.whitelistedIps = @ \cup {ip}, !.blockedIps = @ \ {ip}]

\* String.toLowerCase on the scheme prefixes of the request URLs (none of which
\* has leading white space, so trim() leaves them as they are).
ToLowerCase(str) ==
    IF str = "FILE:" THEN "file:"
    ELSE IF str = "HTTPS://" THEN "https://"
    ELSE IF str = "HTTP://" THEN "http://"
    ELSE str

\* U4: the blocked protocols.
BlockedProtocols == {"file:", "javascript:", "data:", "chrome:", "about:"}

\* U3: a URL without http(s):// becomes https://<url> when it looks like a domain,
\* else a search query.
NormalizeUrl(url) ==
    IF ToLowerCase(url.scheme) \in {"http://", "https://"} THEN url
    ELSE IF url.dot /\ ~url.space
    THEN [scheme |-> "https://", rest |-> url.rest, dot |-> url.dot, space |-> url.space]
    ELSE [scheme |-> "https://", rest |-> <<"www.google.com/search?q=", url.scheme>> \o url.rest,
          dot |-> TRUE, space |-> FALSE]

\* uuidv4() for the session id (0: the bound is reached).
FreshSid(s) ==
    LET free == {id \in Sids : s.sessions[id].status = "none"}
    IN  IF free = {} THEN 0 ELSE Min(free)

\* createSession(url, clientIp).  acquireContainer is handed a uuid of its own,
\* which is not the session's id: it is written here as the negated id.
CreateSession(w, url, clientIp) ==
    LET s1 == ResetDailyStats(w.ss)
        sid == FreshSid(s1)
        acq == AcquireContainer(w.cs, 0 - sid)
        session == [status |-> "active",
                    poolId |-> acq.ret,
                    port |-> acq.cs.cont[acq.ret].port,
                    url |-> NormalizeUrl(url),
                    clientIp |-> GetAnonymizedIp(clientIp),
                    startedAt |-> now,
                    expiresAt |-> now + s1.sessionDuration]
    IN  IF ToLowerCase(url.scheme) \in BlockedProtocols
        THEN [w |-> [w EXCEPT !.ss = s1], kind |-> "error", sid |-> 0]
        ELSE IF acq.ret = 0
        THEN [w |-> [w EXCEPT !.ss = s1], kind |-> "queued", sid |-> 0]
        ELSE [w |-> [cs |-> acq.cs,
                     ss |-> UpdatePeakConcurrent(
                               [s1 EXCEPT !.sessions[sid] = session,
                                          !.ipSessionCount[clientIp] = @ + 1,
                                          !.sessionsToday = @ + 1]),
                     log |-> [w.log EXCEPT ![sid].starts = @ + 1]],
              kind |-> "session", sid |-> sid]

\* The rolling window of the last DurationWindow session durations.
PushDuration(window, d) ==
    IF Len(window) + 1 > DurationWindow THEN Tail(Append(window, d)) ELSE Append(window, d)

\* endSession(sessionId, reason) up to the await inside releaseContainer.
\* ret is the value the call resolves to; awaiting tells whether it is
\* suspended on the container's stop/remove.
EndSession(w, sessionId, reason) ==
    IF sessionId \notin Sids \/ w.ss.sessions[sessionId].status = "none"
    THEN [w |-> w, ret |-> FALSE, awaiting |-> FALSE]
    ELSE LET session == w.ss.sessions[sessionId]
             rel == ReleaseContainer(w.cs, session.poolId)
         IN  [w |-> [cs |-> rel.cs,
                     ss |-> [w.ss EXCEPT !.sessions[sessionId].status = "ended",
                                         !.sessionDurations =
                                             PushDuration(@, now - session.startedAt)],
                     log |-> [w.log EXCEPT ![sessionId].ends = @ + 1,
                                           ![sessionId].reason = reason]],
              ret |-> TRUE, awaiting |-> rel.awaiting]

ExpIdle == [pc |-> "idle", cur |-> 0, now0 |-> 0, cid |-> 0]

\* checkExpiredSessions that returns at the first session it has nothing to do for.
RECURSIVE CheckExpiredSweepStopsEarly(_, _, _)
CheckExpiredSweepStopsEarly(w, from, now0) ==
    IF from > MaxSid THEN [w |-> w, exp |-> ExpIdle]
    ELSE IF w.ss.sessions[from].status = "active" /\ w.ss.sessions[from].expiresAt <= now0
    THEN LET e == EndSession(w, from, "expired")
         IN  IF e.awaiting
             THEN [w |-> e.w,
                   exp |-> [pc |-> "await", cur |-> from, now0 |-> now0,
                            cid |-> w.ss.sessions[from].poolId]]
             ELSE CheckExpiredSweepStopsEarly(e.w, from + 1, now0)
    ELSE [w |-> w, exp |-> ExpIdle]

\* checkExpiredSessions: the loop over this.sessions (insertion order) from
\* session id `from` to its next await (an endSession suspended on a container
\* stop) or to its end.  now0 is the `now` the handler took when it started.
RECURSIVE CheckExpiredSweep(_, _, _)
CheckExpiredSweep(w, from, now0) ==
    IF from > MaxSid THEN [w |-> w, exp |-> ExpIdle]
    ELSE IF w.ss.sessions[from].status = "active" /\ w.ss.sessions[from].expiresAt <= now0
    THEN LET e == EndSession(w, from, "expired")
         IN  IF e.awaiting
             THEN [w |-> e.w,
                   exp |-> [pc |-> "await", cur |-> from, now0 |-> now0,
                            cid |-> w.ss.sessions[from].poolId]]
             ELSE CheckExpiredSweep(e.w, from + 1, now0)
    ELSE CheckExpiredSweep(w, from + 1, now0)

(***************************************************************************)
(* QueueService                                                            *)
(***************************************************************************)
NoEntry == [status |-> "none", url |-> UrlHttps, clientIp |-> <<>>, position |-> 0,
            sessionId |-> 0, port |-> 0]

\* uuidv4() for the entry id (0: the bound is reached).
FreshEid(q) ==
    LET free == {id \in Eids : q.ent[id].status = "none"}
    IN  IF free = {} THEN 0 ELSE Min(free)

\* updatePositions
UpdatePositions(q) ==
    [q EXCEPT !.ent = [id \in Eids |->
        IF id \in Range(q.queue)
        THEN [q.ent[id] EXCEPT !.position = IndexOf(q.queue, id)]
        ELSE q.ent[id]]]

\* addToQueue(url, clientIp); ret is the id of the entry returned.
AddToQueue(q, url, clientIp) ==
    LET existingId == q.ipQueueMap[clientIp]
        reuse == existingId /= 0 /\ existingId \in q.entries
                 /\ q.ent[existingId].status = "waiting"
        id == FreshEid(q)
    IN  IF reuse
        THEN [qs |-> [q EXCEPT !.ent[existingId].url = url], ret |-> existingId]
        ELSE [qs |-> [q EXCEPT !.ent[id] = [status |-> "waiting", url |-> url,
                                            clientIp |-> clientIp,
                                            position |-> Len(q.queue) + 1,
                                            sessionId |-> 0, port |-> 0],
                               !.queue = Append(@, id),
                               !.entries = @ \cup {id},
                               !.ipQueueMap[clientIp] = id],
              ret |-> id]

\* getQueueEntry(queueId); found is false for undefined, ret is the entry returned.
GetQueueEntry(q, queueId) ==
    IF queueId \notin q.entries
    THEN [qs |-> q, found |-> FALSE, ret |-> NoEntry]
    ELSE LET q1 == IF q.ent[queueId].status = "waiting"
                   THEN [q EXCEPT !.ent[queueId].position = IndexOf(q.queue, queueId)]
                   ELSE q
         IN  [qs |-> q1, found |-> TRUE, ret |-> q1.ent[queueId]]

\* notifyUpdate(entry): the entry's callback, if one is registered, is called
\* with the entry; delivered keeps the statuses it was called with.
NotifyUpdate(q, id) ==
    IF id \in q.callbacks
    THEN [q EXCEPT !.delivered[id] = Append(@, q.ent[id].status)]
    ELSE q

\* removeFromQueue(queueId)
RemoveFromQueue(q, queueId) ==
    LET q1 == IF queueId \in Range(q.queue)
              THEN UpdatePositions([q EXCEPT !.queue = SeqRemove(@, queueId)])
              ELSE q
        q2 == IF queueId \in q1.entries
              THEN [q1 EXCEPT !.ipQueueMap[q1.ent[queueId].clientIp] = 0]
              ELSE q1
    IN  [qs |-> [q2 EXCEPT !.entries = @ \ {queueId}, !.callbacks = @ \ {queueId}],
         ret |-> TRUE]

\* drainQueue(); ret is the count returned.
DrainQueue(q) ==
    LET ids == Range(q.queue)
    IN  [qs |-> [q EXCEPT !.ent = [id \in Eids |->
                                    IF id \in ids
                                    THEN [q.ent[id] EXCEPT !.status = "rate_limited"]
                                    ELSE q.ent[id]],
                          !.ipQueueMap = [ip \in IPs |->
                                    IF \E id \in ids : q.ent[id].clientIp = ip
                                    THEN 0 ELSE q.ipQueueMap[ip]],
                          !.delivered = [id \in Eids |->
                                    IF id \in ids /\ id \in q.callbacks
                                    THEN Append(q.delivered[id], "rate_limited")
                                    ELSE q.delivered[id]],
                          !.entries = @ \ ids,
                          !.callbacks = @ \ ids,
                          !.queue = <<>>],
         ret |-> Len(q.queue)]

\* getAllQueue(): the entries of the waiting sequence, as stored.
GetAllQueue(q) == [i \in 1..Len(q.queue) |-> q.ent[q.queue[i]]]

\* getAvgSessionDuration(): the mean of the rolling window, or sessionDuration
\* when the window is empty, as the fraction num / den.
RECURSIVE SumSeq(_)
SumSeq(s) == IF Len(s) = 0 THEN 0 ELSE Head(s) + SumSeq(Tail(s))

GetAvgSessionDuration(s) ==
    IF Len(s.sessionDurations) = 0
    THEN [num |-> s.sessionDuration, den |-> 1]
    ELSE [num |-> SumSeq(s.sessionDurations), den |-> Len(s.sessionDurations)]

\* Math.ceil(a / b) for a >= 0 and b > 0.
CeilDiv(a, b) == (a + b - 1) \div b

\* getEstimatedWaitTime(): 0 with a warm container, otherwise
\* Math.ceil((queue.length / 3) * avgDuration).
GetEstimatedWaitTime(q, s, c) ==
    LET avg == GetAvgSessionDuration(s)
    IN  IF GetWarmCount(c) > 0 THEN 0
        ELSE CeilDiv(Len(q.queue) * avg.num, 3 * avg.den)

\* onUpdate(queueId, callback)
OnUpdate(q, queueId) == [q EXCEPT !.callbacks = @ \cup {queueId}]

\* The entry processQueue takes: the first waiting entry of the queue, when the
\* queue is not empty and a warm container exists (0: processQueue returns).
NextToProcess(w) ==
    LET waiting == {i \in 1..Len(w.qs.queue) : w.qs.ent[w.qs.queue[i]].status = "waiting"}
    IN  IF Len(w.qs.queue) = 0 \/ GetWarmCount(w.cs) = 0 \/ waiting = {}
        THEN 0
        ELSE w.qs.queue[Min(waiting)]

\* processQueue that does not consult the rate limit.
ProcessQueueTakeNoLimit(w) ==
    LET id == NextToProcess(w)
        q1 == UpdatePositions([w.qs EXCEPT !.queue = SeqRemove(@, id)])
    IN  IF id = 0 THEN w
        ELSE [w EXCEPT !.ss = ResetDailyStats(w.ss),
                       !.qs = NotifyUpdate([q1 EXCEPT !.ent[id].status = "preparing"], id)]

\* processQueue up to its await on the 500 ms delay, on w = [cs, ss, qs, log].
ProcessQueueTake(w) ==
    LET id == NextToProcess(w)
        q1 == UpdatePositions([w.qs EXCEPT !.queue = SeqRemove(@, id)])
        rl == CheckRateLimit(w.ss, q1.ent[id].clientIp)
    IN  IF id = 0 THEN w
        ELSE IF ~rl.allowed
        THEN [w EXCEPT !.ss = rl.ss,
                       !.qs = [NotifyUpdate([q1 EXCEPT !.ent[id].status = "rate_limited"], id)
                                  EXCEPT !.ipQueueMap[q1.ent[id].clientIp] = 0,
                                         !.entries = @ \ {id},
                                         !.callbacks = @ \ {id}]]
        ELSE [w EXCEPT !.ss = rl.ss,
                       !.qs = NotifyUpdate([q1 EXCEPT !.ent[id].status = "preparing"], id)]

\* processQueue after the delay, for the entry it holds: connecting, createSession,
\* then ready, drop (error) or back to the front of the queue.
ProcessQueueConnect(w, id) ==
    LET entry == w.qs.ent[id]
        r == CreateSession([cs |-> w.cs, ss |-> w.ss, log |-> w.log], entry.url, entry.clientIp)
        w1 == [w EXCEPT !.cs = r.w.cs, !.ss = r.w.ss, !.log = r.w.log]
        qc == NotifyUpdate([w.qs EXCEPT !.ent[id].status = "connecting"], id)
    IN  IF r.kind = "session"
        THEN [w1 EXCEPT !.qs = NotifyUpdate(
                                  [qc EXCEPT !.ent[id].status = "ready",
                                             !.ent[id].sessionId = r.sid,
                                             !.ent[id].port = r.w.ss.sessions[r.sid].port],
                                  id)]
        ELSE IF r.kind = "error"
        THEN [w1 EXCEPT !.qs = [qc EXCEPT !.entries = @ \ {id}]]
        ELSE [w1 EXCEPT !.qs = NotifyUpdate(
                                  UpdatePositions(
                                      [qc EXCEPT !.ent[id].status = "waiting",
                                                 !.queue = <<id>> \o @]),
                                  id)]

\* SessionController.createSession(dto, clientIp) for a dto with a url: code is
\* the HTTP status of the answer.
SessionControllerCreateNoPause(q, s, url, clientIp) ==
    LET r == AddToQueue(q, url, clientIp)
    IN  [qs |-> r.qs, code |-> 201, queueId |-> r.ret, position |-> r.qs.ent[r.ret].position]

SessionControllerCreate(q, s, url, clientIp) ==
    IF s.paused
    THEN [qs |-> q, code |-> 503, queueId |-> 0, position |-> 0]
    ELSE LET r == AddToQueue(q, url, clientIp)
         IN  [qs |-> r.qs, code |-> 201, queueId |-> r.ret,
              position |-> r.qs.ent[r.ret].position]

\* GET /admin/pool: the status shown for pool container id.  reconnecting.has
\* is a lookup of the container's recorded sessionId in the gateway's map.
AdminPoolStatus(c, g, id) ==
    IF /\ c.cont[id].status = "active"
       /\ c.cont[id].sessionId /= 0
       /\ c.cont[id].sessionId \in Sids
       /\ g.reconnectingSessions[c.cont[id].sessionId].has
    THEN "reconnecting"
    ELSE c.cont[id].status

\* The IP values in the bodies of the admin listings: GET /admin/sessions,
\* GET /admin/queue and GET /admin/rate-limits.
AdminSessionsIps(s) == {s.sessions[id].clientIp : id \in GetActiveSessions(s)}

AdminQueueIps(q) == {GetAllQueue(q)[i].clientIp : i \in 1..Len(q.queue)}

AdminRateLimitsIps(s) ==
    {r.ip : r \in GetRateLimitStats(s)} \cup GetRateLimitedIps(s)
        \cup GetBlockedIps(s) \cup GetWhitelistedIps(s)

(***************************************************************************)
(* SessionGateway                                                          *)
(* g is the gateway record; s is the SessionService record it reads.       *)
(* out holds the events the last handler emitted, in order; turn flips at  *)
(* every handler.  joinedSent, endedSent, primaryTold and emptySince       *)
(* record what each socket has been sent and since when a session has had  *)
(* no bound client.                                                        *)
(***************************************************************************)
NoTimer == [has |-> FALSE, disconnectedAt |-> 0]

GwInit ==
    [sockets |-> [c \in Clients |-> "new"],
     clientSessions |-> [c \in Clients |-> 0],
     sessionClients |-> [id \in Sids |-> {}],
     sessionPrimary |-> [id \in Sids |-> 0],
     sessionViewers |-> [id \in Sids |-> {}],
     clientIsViewer |-> [c \in Clients |-> FALSE],
     reconnectingSessions |-> [id \in Sids |-> NoTimer],
     timers |-> [id \in Sids |-> {}],
     out |-> <<>>,
     turn |-> 0,
     joinedSent |-> [c \in Clients |-> {}],
     endedSent |-> [c \in Clients |-> {}],
     primaryTold |-> [c \in Clients |-> {}],
     emptySince |-> [id \in Sids |-> 0 - 1]]

\* socket.emit(ev, ...) for the socket `to`, about session sid, when
\* server.sockets.sockets.get(to) finds the socket.
Emit(g, to, ev, sid, flag) ==
    IF to = 0 \/ g.sockets[to] /= "open" THEN g
    ELSE [g EXCEPT !.out = Append(@, [to |-> to, ev |-> ev, sid |-> sid, flag |-> flag]),
                   !.joinedSent[to] = IF ev = "session:joined" THEN @ \cup {sid} ELSE @,
                   !.endedSent[to] = IF ev = "session:ended" THEN @ \cup {sid} ELSE @,
                   !.primaryTold[to] =
                       IF ev = "session:joined" /\ flag = "isPrimary" THEN @ \cup {sid}
                       ELSE IF ev \in {"session:joined", "session:takeover", "session:ended"}
                       THEN @ \ {sid}
                       ELSE @]

RECURSIVE EmitAll(_, _, _, _, _)
EmitAll(g, tos, ev, sid, flag) ==
    IF tos = {} THEN g
    ELSE EmitAll(Emit(g, Min(tos), ev, sid, flag), tos \ {Min(tos)}, ev, sid, flag)

\* emitViewerCount(sessionId)
EmitViewerCount(g, sid) == Emit(g, g.sessionPrimary[sid], "session:viewer-count", sid, "")

\* A handler starts: nothing emitted yet.
GwBegin(g) == [g EXCEPT !.out = <<>>, !.turn = 1 - @]

\* A handler ends: since when each session has had no bound client.
GwEnd(g0, g, t) ==
    [g EXCEPT !.emptySince = [id \in Sids |->
        IF g.sessionClients[id] /= {} THEN 0 - 1
        ELSE IF g0.sessionClients[id] /= {} THEN t
        ELSE g0.emptySince[id]]]

\* handleConnection(client)
HandleConnection(g, c) == [g EXCEPT !.sockets[c] = "open"]

\* handleDisconnect(client) at time t.
HandleDisconnect(g, c, t) ==
    LET sid == g.clientSessions[c]
        g1 == [g EXCEPT !.sockets[c] = "closed", !.primaryTold[c] = {}]
        g2 == [g1 EXCEPT !.clientSessions[c] = 0, !.clientIsViewer[c] = FALSE]
        g3 == IF g.clientIsViewer[c]
              THEN EmitViewerCount([g2 EXCEPT !.sessionViewers[sid] = @ \ {c}], sid)
              ELSE g2
        g4 == [g3 EXCEPT !.sessionClients[sid] = @ \ {c},
                         !.sessionPrimary[sid] = IF @ = c THEN 0 ELSE @]
    IN  IF sid = 0 THEN g1
        ELSE IF g3.sessionClients[sid] = {} THEN g3
        ELSE IF g4.sessionClients[sid] /= {} THEN g4
        ELSE [g4 EXCEPT !.timers[sid] =
                            (IF g4.reconnectingSessions[sid].has
                             THEN @ \ {g4.reconnectingSessions[sid].disconnectedAt}
                             ELSE @) \cup {t},
                        !.reconnectingSessions[sid] = [has |-> TRUE, disconnectedAt |-> t]]

\* getSessionTimeRemaining(sessionId) at time t.
GetSessionTimeRemaining(s, sid, t) ==
    IF s.sessions[sid].status /= "active" THEN 0
    ELSE IF s.sessions[sid].expiresAt - t > 0 THEN s.sessions[sid].expiresAt - t ELSE 0

\* handleJoinSession without the takeover notice to the previous primary.
HandleJoinSessionNoTakeover(g, s, c, sid, viewer) ==
    LET g1 == [g EXCEPT !.clientSessions[c] = sid,
                        !.sessionClients[sid] = @ \cup {c}]
        g2 == IF g1.reconnectingSessions[sid].has
              THEN [g1 EXCEPT !.timers[sid] = @ \ {g1.reconnectingSessions[sid].disconnectedAt},
                              !.reconnectingSessions[sid] = NoTimer]
              ELSE g1
    IN  IF s.sessions[sid].status /= "active"
        THEN Emit(g, c, "session:error", sid, "")
        ELSE IF viewer
        THEN EmitViewerCount(
                 Emit([g2 EXCEPT !.clientIsViewer[c] = TRUE,
                                 !.sessionViewers[sid] = @ \cup {c}],
                      c, "session:joined", sid, "isViewer"),
                 sid)
        ELSE EmitViewerCount(
                 Emit([g2 EXCEPT !.sessionPrimary[sid] = c],
                      c, "session:joined", sid, "isPrimary"),
                 sid)

\* handleJoinSession that leaves a pending grace timer running.
HandleJoinSessionKeepsTimer(g, s, c, sid, viewer) ==
    LET g2 == [g EXCEPT !.clientSessions[c] = sid,
                        !.sessionClients[sid] = @ \cup {c}]
        currentPrimary == g2.sessionPrimary[sid]
        g3 == IF currentPrimary /= 0 /\ currentPrimary /= c
              THEN Emit(g2, currentPrimary, "session:takeover", sid, "")
              ELSE g2
    IN  IF s.sessions[sid].status /= "active"
        THEN Emit(g, c, "session:error", sid, "")
        ELSE IF viewer
        THEN EmitViewerCount(
                 Emit([g2 EXCEPT !.clientIsViewer[c] = TRUE,
                                 !.sessionViewers[sid] = @ \cup {c}],
                      c, "session:joined", sid, "isViewer"),
                 sid)
        ELSE EmitViewerCount(
                 Emit([g3 EXCEPT !.sessionPrimary[sid] = c],
                      c, "session:joined", sid, "isPrimary"),
                 sid)

\* handleJoinSession(client, {sessionId, viewer})
HandleJoinSession(g, s, c, sid, viewer) ==
    LET g1 == [g EXCEPT !.clientSessions[c] = sid,
                        !.sessionClients[sid] = @ \cup {c}]
        g2 == IF g1.reconnectingSessions[sid].has
              THEN [g1 EXCEPT !.timers[sid] = @ \ {g1.reconnectingSessions[sid].disconnectedAt},
                              !.reconnectingSessions[sid] = NoTimer]
              ELSE g1
        currentPrimary == g2.sessionPrimary[sid]
        g3 == IF currentPrimary /= 0 /\ currentPrimary /= c
              THEN Emit(g2, currentPrimary, "session:takeover", sid, "")
              ELSE g2
    IN  IF s.sessions[sid].status /= "active"
        THEN Emit(g, c, "session:error", sid, "")
        ELSE IF viewer
        THEN EmitViewerCount(
                 Emit([g2 EXCEPT !.clientIsViewer[c] = TRUE,
                                 !.sessionViewers[sid] = @ \cup {c}],
                      c, "session:joined", sid, "isViewer"),
                 sid)
        ELSE EmitViewerCount(
                 Emit([g3 EXCEPT !.sessionPrimary[sid] = c],
                      c, "session:joined", sid, "isPrimary"),
                 sid)

\* The inner loop of broadcastTimerUpdates for an active session: session:timer
\* to each bound socket, followed by session:warning when the time remaining is
\* the warning threshold.
RECURSIVE EmitTimers(_, _, _, _)
EmitTimers(g, tos, sid, warn) ==
    IF tos = {} THEN g
    ELSE LET g1 == Emit(g, Min(tos), "session:timer", sid, "")
             g2 == IF warn THEN Emit(g1, Min(tos), "session:warning", sid, "") ELSE g1
         IN  EmitTimers(g2, tos \ {Min(tos)}, sid, warn)

\* notifySessionEnded(sessionId, reason): no caller in the repository.
NotifySessionEnded(g, sid, reason) ==
    EmitAll(g, g.sessionClients[sid], "session:ended", sid, reason)

\* broadcastTimerUpdates that keeps the bindings of a session it found ended.
RECURSIVE BroadcastTimerUpdatesKeepsClients(_, _, _, _)
BroadcastTimerUpdatesKeepsClients(g, s, from, t) ==
    IF from > MaxSid THEN g
    ELSE IF g.sessionClients[from] = {} THEN BroadcastTimerUpdatesKeepsClients(g, s, from + 1, t)
    ELSE IF s.sessions[from].status /= "active"
    THEN BroadcastTimerUpdatesKeepsClients(
             EmitAll(g, g.sessionClients[from], "session:ended", from, "expired"),
             s, from + 1, t)
    ELSE BroadcastTimerUpdatesKeepsClients(
             EmitAll(g, g.sessionClients[from], "session:timer", from, ""),
             s, from + 1, t)

\* broadcastTimerUpdates at time t, for the sessions from id `from` on (the
\* sessions are independent of one another in this handler).
RECURSIVE BroadcastTimerUpdates(_, _, _, _)
BroadcastTimerUpdates(g, s, from, t) ==
    IF from > MaxSid THEN g
    ELSE IF g.sessionClients[from] = {} THEN BroadcastTimerUpdates(g, s, from + 1, t)
    ELSE IF s.sessions[from].status /= "active"
    THEN BroadcastTimerUpdates(
             [EmitAll(g, g.sessionClients[from], "session:ended", from, "expired")
                 EXCEPT !.clientIsViewer = [c \in Clients |->
                                               IF c \in g.sessionClients[from] THEN FALSE ELSE @[c]],
                        !.sessionClients[from] = {},
                        !.sessionViewers[from] = {}],
             s, from + 1, t)
    ELSE BroadcastTimerUpdates(
             EmitTimers(g, g.sessionClients[from], from,
                        GetSessionTimeRemaining(s, from, t) = WarningAt),
             s, from + 1, t)

\* checkSessionAbandoned(sessionId), run by the grace timer started at `handle`,
\* on w = [cs, ss, log]; returns the world and the gateway.
CheckSessionAbandoned(w, g, sid, handle) ==
    LET g1 == [g EXCEPT !.timers[sid] = @ \ {handle},
                        !.reconnectingSessions[sid] = NoTimer]
    IN  IF g.sessionClients[sid] = {} /\ w.ss.sessions[sid].status = "active"
        THEN [w |-> EndSession(w, sid, "abandoned").w, gw |-> g1]
        ELSE [w |-> w, gw |-> g1]

(***************************************************************************)
(* Initial state: the services are constructed and onModuleInit has        *)
(* finished, so initializePool has put poolSize booting containers in the  *)
(* pool, each with its readiness probe running.                            *)
(***************************************************************************)
InitCids == 1..PoolSizeInit

InitWith(limit) ==
    /\ cs = [pool |-> [i \in InitCids |-> i],
             cont |-> [id \in Cids |->
                         IF id \in InitCids
                         THEN [status |-> "booting", port |-> PortRangeStart + id - 1,
                               sessionId |-> 0]
                         ELSE NoContainer],
             usedPorts |-> {PortRangeStart + id - 1 : id \in InitCids},
             poolSize |-> PoolSizeInit,
             creating |-> {},
             probing |-> InitCids,
             releasing |-> [id \in Cids |-> 0]]
    /\ ss = [sessions |-> [id \in Sids |-> NoSession],
             ipSessionCount |-> [ip \in IPs |-> 0],
             sessionDuration |-> SessionDurationInit,
             rateLimitPerDay |-> limit,
             sessionDurations |-> <<>>,
             paused |-> FALSE,
             blockedIps |-> {},
             whitelistedIps |-> {},
             sessionsToday |-> 0,
             peakConcurrent |-> 0,
             lastResetDate |-> 0]
    /\ qs = [queue |-> <<>>,
             ent |-> [id \in Eids |-> NoEntry],
             entries |-> {},
             ipQueueMap |-> [ip \in IPs |-> 0],
             callbacks |-> {},
             delivered |-> [id \in Eids |-> <<>>],
             heldAtDrain |-> {}]
    /\ log = [id \in Sids |-> [starts |-> 0, ends |-> 0, reason |-> "none"]]
    /\ hc = HcIdle
    /\ rs = RsIdle
    /\ exp = ExpIdle
    /\ now = 0
    /\ day = 0
    /\ gw = GwInit
    /\ clk = [expiry |-> 0, frac |-> 0, sinceBroadcast |-> 0,
              warned |-> [c \in Clients |-> [id \in Sids |-> 0]],
              boundEarly |-> [c \in Clients |-> {}]]

Init == InitWith(RateLimitPerDay)

World == [cs |-> cs, ss |-> ss, qs |-> qs, log |-> log]

SetWorld(w) ==
    cs' = Collect(w.cs, hc, rs, exp) /\ ss' = w.ss /\ qs' = w.qs /\ log' = w.log

(***************************************************************************)
(* Container runtime and probe completions.                                *)
(***************************************************************************)
ContainerCreated(id) ==
    /\ id \in cs.creating
    /\ cs' = Collect(CreateWarmContainerDone(cs, id), hc, rs, exp)
    /\ UNCHANGED <<clk, gw, ss, qs, log, hc, rs, exp, now, day>>

ContainerCreateFailed(id) ==
    /\ id \in cs.creating
    /\ cs' = Collect(CreateWarmContainerFailed(cs, id), hc, rs, exp)
    /\ UNCHANGED <<clk, gw, ss, qs, log, hc, rs, exp, now, day>>

ProbeReady(id) ==
    /\ id \in cs.probing
    /\ cs' = Collect(ProbeResolved(cs, id), hc, rs, exp)
    /\ UNCHANGED <<clk, gw, ss, qs, log, hc, rs, exp, now, day>>

ProbeTimeout(id) ==
    /\ id \in cs.probing
    /\ cs' = Collect(ProbeRejected(cs, id), hc, rs, exp)
    /\ UNCHANGED <<clk, gw, ss, qs, log, hc, rs, exp, now, day>>

\* A releaseContainer call that no modelled loop awaits resumes after stop/remove.
ReleaseDone(id) ==
    /\ cs.releasing[id] > (IF exp.pc = "await" /\ exp.cid = id THEN 1 ELSE 0)
    /\ cs' = Collect(ReleaseContainerDone(cs, id), hc, rs, exp)
    /\ UNCHANGED <<clk, gw, ss, qs, log, hc, rs, exp, now, day>>

(***************************************************************************)
(* Health loop (setInterval 5 s); one run at a time.                       *)
(***************************************************************************)
HealthCheck ==
    /\ hc.pc = "idle"
    /\ LET r == HealthCheckSweep(cs, {})
       IN  cs' = Collect(r.cs, r.hc, rs, exp) /\ hc' = r.hc
    /\ UNCHANGED <<clk, gw, ss, qs, log, rs, exp, now, day>>

HealthCheckInspect(result) ==
    /\ hc.pc = "inspect"
    /\ LET r == HealthCheckInspected(cs, hc, result)
       IN  cs' = Collect(r.cs, r.hc, rs, exp) /\ hc' = r.hc
    /\ UNCHANGED <<clk, gw, ss, qs, log, rs, exp, now, day>>

HealthCheckRemove ==
    /\ hc.pc = "remove"
    /\ LET r == HealthCheckRemoved(cs, hc)
       IN  cs' = Collect(r.cs, r.hc, rs, exp) /\ hc' = r.hc
    /\ UNCHANGED <<clk, gw, ss, qs, log, rs, exp, now, day>>

(***************************************************************************)
(* AdminController: pool restart and runtime configuration.                *)
(***************************************************************************)
RestartPool ==
    /\ rs.pc = "idle"
    /\ LET r == RestartPoolSweep(cs, {})
       IN  cs' = Collect(r.cs, hc, r.rs, exp) /\ rs' = r.rs
    /\ UNCHANGED <<clk, gw, ss, qs, log, hc, exp, now, day>>

RestartPoolStop ==
    /\ rs.pc = "stop"
    /\ LET r == RestartPoolStopped(cs, rs)
       IN  cs' = Collect(r.cs, hc, r.rs, exp) /\ rs' = r.rs
    /\ UNCHANGED <<clk, gw, ss, qs, log, hc, exp, now, day>>

\* POST /admin/config {poolSize}: setPoolSize when 1 <= poolSize <= 20.
AdminSetPoolSize(newSize) ==
    /\ newSize >= 1 /\ newSize <= 20
    /\ cs' = Collect(SetPoolSize(cs, newSize), hc, rs, exp)
    /\ UNCHANGED <<clk, gw, ss, qs, log, hc, rs, exp, now, day>>

(***************************************************************************)
(* SessionController / QueueController                                     *)
(***************************************************************************)
\* POST /session with a url: 503 while paused, else addToQueue and the answer
\* {queueId, position}.
PostSession(url, clientIp) ==
    /\ FreshEid(qs) /= 0
    /\ qs' = SessionControllerCreate(qs, ss, url, clientIp).qs
    /\ UNCHANGED <<clk, gw, cs, ss, log, hc, rs, exp, now, day>>

\* GET /queue/:id
GetQueueStatus(id) ==
    /\ qs' = GetQueueEntry(qs, id).qs
    /\ UNCHANGED <<clk, gw, cs, ss, log, hc, rs, exp, now, day>>

\* queue:join {queueId} on the queue gateway: the socket subscribes to the entry.
QueueJoin(id) ==
    /\ GetQueueEntry(qs, id).found
    /\ qs' = OnUpdate(GetQueueEntry(qs, id).qs, id)
    /\ UNCHANGED <<clk, gw, cs, ss, log, hc, rs, exp, now, day>>

\* DELETE /queue/:id
LeaveQueue(id) ==
    /\ qs.ent[id].status /= "none"
    /\ qs' = RemoveFromQueue(qs, id).qs
    /\ UNCHANGED <<clk, gw, cs, ss, log, hc, rs, exp, now, day>>

\* The entries the worker holds between its take and the end of its run.
HeldByWorker(q) == {id \in Eids : q.ent[id].status \in {"preparing", "connecting"}}

\* POST /admin/drain-queue; heldAtDrain records the entries the worker held
\* when a drain ran.
AdminDrainQueue ==
    /\ qs' = [DrainQueue(qs).qs EXCEPT !.heldAtDrain = @ \cup HeldByWorker(qs)]
    /\ UNCHANGED <<clk, gw, cs, ss, log, hc, rs, exp, now, day>>

\* DELETE /session/:id and DELETE /admin/sessions/:id: endSession with the
\* caller's reason; the call stays suspended on the container stop.
EndSessionCall(id, reason) ==
    /\ Len(ss.sessionDurations) < MaxEnds
    /\ LET e == EndSession([cs |-> cs, ss |-> ss, log |-> log], id, reason)
       IN  cs' = Collect(e.w.cs, hc, rs, exp) /\ ss' = e.w.ss /\ log' = e.w.log
    /\ UNCHANGED <<clk, gw, qs, hc, rs, exp, now, day>>

UserEndSession(id) == EndSessionCall(id, "user_ended")

AdminKillSession(id) == EndSessionCall(id, "admin_killed")

\* POST /admin/ip/block/:ip and unblock
AdminBlockIp(ip) ==
    /\ ss' = [ss EXCEPT !.blockedIps = @ \cup {ip}, !.whitelistedIps = @ \ {ip}]
    /\ UNCHANGED <<clk, gw, cs, qs, log, hc, rs, exp, now, day>>

AdminUnblockIp(ip) ==
    /\ ss' = [ss EXCEPT !.blockedIps = @ \ {ip}]
    /\ UNCHANGED <<clk, gw, cs, qs, log, hc, rs, exp, now, day>>

\* POST /admin/config {sessionDuration}: accepted from 60 s to 1800 s, here from
\* one tick to MaxDuration ticks.
AdminSetSessionDuration(duration) ==
    /\ duration >= 1 /\ duration <= MaxDuration
    /\ ss' = SetSessionDuration(ss, duration)
    /\ UNCHANGED <<clk, gw, cs, qs, log, hc, rs, exp, now, day>>

\* POST /admin/pause and POST /admin/resume
AdminPause ==
    /\ ss' = SetPaused(ss, TRUE)
    /\ UNCHANGED <<clk, gw, cs, qs, log, hc, rs, exp, now, day>>

AdminResume ==
    /\ ss' = SetPaused(ss, FALSE)
    /\ UNCHANGED <<clk, gw, cs, qs, log, hc, rs, exp, now, day>>

\* POST /admin/ip/whitelist/:ip
AdminWhitelistIp(ip) ==
    /\ ss' = WhitelistIp(ss, ip)
    /\ UNCHANGED <<clk, gw, cs, qs, log, hc, rs, exp, now, day>>

(***************************************************************************)
(* Queue worker (setInterval 500 ms and setImmediate after addToQueue).    *)
(***************************************************************************)
ProcessQueue ==
    /\ NextToProcess(World) /= 0
    /\ SetWorld(ProcessQueueTake(World))
    /\ UNCHANGED <<clk, gw, hc, rs, exp, now, day>>

\* Session ids are capped at MaxSid and expiry times at MaxTime.
ProcessQueueResume(id) ==
    /\ qs.ent[id].status = "preparing"
    /\ FreshSid(ss) /= 0
    /\ now + ss.sessionDuration <= MaxTime
    /\ SetWorld(ProcessQueueConnect(World, id))
    /\ UNCHANGED <<clk, gw, hc, rs, exp, now, day>>

(***************************************************************************)
(* Expiry loop (setInterval 5 s); one run at a time.                       *)
(***************************************************************************)
CheckExpiredSessions ==
    /\ exp.pc = "idle"
    /\ LET r == CheckExpiredSweep([cs |-> cs, ss |-> ss, log |-> log], 1, now)
       IN  cs' = Collect(r.w.cs, hc, rs, r.exp) /\ ss' = r.w.ss /\ log' = r.w.log /\ exp' = r.exp
    /\ UNCHANGED <<clk, gw, qs, hc, rs, now, day>>

\* The endSession the loop awaits resumes: the container's stop/remove settled.
CheckExpiredResume ==
    /\ exp.pc = "await"
    /\ LET c1 == ReleaseContainerDone(cs, exp.cid)
           r == CheckExpiredSweep([cs |-> c1, ss |-> ss, log |-> log], exp.cur + 1, exp.now0)
       IN  cs' = Collect(r.w.cs, hc, rs, r.exp) /\ ss' = r.w.ss /\ log' = r.w.log /\ exp' = r.exp
    /\ UNCHANGED <<clk, gw, qs, hc, rs, now, day>>

(***************************************************************************)
(* Session gateway: socket handlers, the 1 s broadcast and the grace timer.*)
(***************************************************************************)
\* Date.now() in whole ticks, rounded up: floor(expiresAt - Date.now()) is
\* expiresAt - Clock.
Clock == now + (IF clk.frac > 0 THEN 1 ELSE 0)

ClientConnect(c) ==
    /\ gw.sockets[c] = "new"
    /\ gw' = GwEnd(gw, HandleConnection(GwBegin(gw), c), now)
    /\ UNCHANGED <<clk, cs, ss, qs, log, hc, rs, exp, now, day>>

ClientJoinSession(c, sid, viewer) ==
    /\ gw.sockets[c] = "open"
    /\ gw' = GwEnd(gw, HandleJoinSession(GwBegin(gw), ss, c, sid, viewer), now)
    /\ UNCHANGED <<clk, cs, ss, qs, log, hc, rs, exp, now, day>>

\* session:reconnect carries no viewer flag and is handled as a join.
ClientReconnect(c, sid) ==
    /\ gw.sockets[c] = "open"
    /\ gw' = GwEnd(gw, HandleJoinSession(GwBegin(gw), ss, c, sid, FALSE), now)
    /\ UNCHANGED <<clk, cs, ss, qs, log, hc, rs, exp, now, day>>

ClientDisconnect(c) ==
    /\ gw.sockets[c] = "open"
    /\ gw' = GwEnd(gw, HandleDisconnect(GwBegin(gw), c, now), now)
    /\ UNCHANGED <<clk, cs, ss, qs, log, hc, rs, exp, now, day>>

TimerBroadcast ==
    /\ gw' = GwEnd(gw, BroadcastTimerUpdates(GwBegin(gw), ss, 1, Clock), now)
    /\ UNCHANGED <<clk, cs, ss, qs, log, hc, rs, exp, now, day>>

\* The grace timer started at `handle` runs once GraceTicks have passed.
GraceTimerFires(sid, handle) ==
    /\ handle \in gw.timers[sid]
    /\ now >= handle + GraceTicks
    /\ Len(ss.sessionDurations) < MaxEnds
    /\ LET r == CheckSessionAbandoned([cs |-> cs, ss |-> ss, log |-> log], GwBegin(gw), sid, handle)
       IN  /\ cs' = Collect(r.w.cs, hc, rs, exp) /\ ss' = r.w.ss /\ log' = r.w.log
           /\ gw' = GwEnd(gw, r.gw, now)
    /\ UNCHANGED <<clk, qs, hc, rs, exp, now, day>>

(***************************************************************************)
(* The expiry loop on its interval: it fires every LoopPeriod ticks, and   *)
(* the clock does not pass a firing that is due.                           *)
(***************************************************************************)
ExpiryIntervalFires ==
    /\ now = clk.expiry + LoopPeriod
    /\ exp.pc = "idle"
    /\ LET r == CheckExpiredSweep([cs |-> cs, ss |-> ss, log |-> log], 1, now)
       IN  cs' = Collect(r.w.cs, hc, rs, r.exp) /\ ss' = r.w.ss /\ log' = r.w.log /\ exp' = r.exp
    /\ clk' = [clk EXCEPT !.expiry = now]
    /\ UNCHANGED <<gw, qs, hc, rs, now, day>>

TimedTick ==
    /\ now < clk.expiry + LoopPeriod
    /\ now < MaxTime + LoopPeriod
    /\ now' = now + 1
    /\ UNCHANGED <<clk, gw, cs, ss, qs, log, hc, rs, exp, day>>

(***************************************************************************)
(* The broadcast on its interval: it fires one tick (SubTicks sub-ticks)   *)
(* after its last firing, or up to Jitter sub-ticks later; the clock moves *)
(* in sub-ticks and does not pass a firing that is that late.              *)
(***************************************************************************)
\* The count of session:warning events each socket was sent per session, after
\* the events of out (capped at MaxWarned).
Warned(w, out) ==
    [c \in Clients |-> [id \in Sids |->
        Min({MaxWarned,
             w[c][id] + Cardinality({i \in 1..Len(out) :
                            /\ out[i].to = c
                            /\ out[i].ev = "session:warning"
                            /\ out[i].sid = id})})]]

\* The sessions each open socket has been bound to while the session's time
\* remaining was still above the warning threshold.
BoundEarly(b, g, s, t) ==
    [c \in Clients |->
        b[c] \cup {id \in Sids : /\ c \in g.sessionClients[id]
                                /\ g.sockets[c] = "open"
                                /\ GetSessionTimeRemaining(s, id, t) > WarningAt}]

BroadcastIntervalFires ==
    /\ clk.sinceBroadcast >= SubTicks
    /\ gw' = GwEnd(gw, BroadcastTimerUpdates(GwBegin(gw), ss, 1, Clock), now)
    /\ clk' = [clk EXCEPT !.sinceBroadcast = 0,
                          !.warned = Warned(@, gw'.out)]
    /\ UNCHANGED <<cs, ss, qs, log, hc, rs, exp, now, day>>

SubTick ==
    /\ clk.sinceBroadcast < SubTicks + Jitter
    /\ now < MaxTime
    /\ now' = IF clk.frac + 1 = SubTicks THEN now + 1 ELSE now
    /\ clk' = [clk EXCEPT !.frac = (@ + 1) % SubTicks, !.sinceBroadcast = @ + 1,
                          !.boundEarly = BoundEarly(@, gw, ss, Clock)]
    /\ UNCHANGED <<gw, cs, ss, qs, log, hc, rs, exp, day>>

(***************************************************************************)
(* Time.                                                                   *)
(***************************************************************************)
Tick ==
    /\ now < MaxTime
    /\ now' = now + 1
    /\ UNCHANGED <<clk, gw, cs, ss, qs, log, hc, rs, exp, day>>

NextDay ==
    /\ day < MaxDay
    /\ day' = day + 1
    /\ UNCHANGED <<clk, gw, cs, ss, qs, log, hc, rs, exp, now>>

(***************************************************************************)
(* Specifications.                                                         *)
(***************************************************************************)
Next ==
    \/ \E id \in Cids : ContainerCreated(id)
    \/ \E id \in Cids : ContainerCreateFailed(id)
    \/ \E id \in Cids : ProbeReady(id)
    \/ \E id \in Cids : ProbeTimeout(id)
    \/ \E id \in Cids : ReleaseDone(id)
    \/ HealthCheck
    \/ \E result \in {"running", "exited", "error"} : HealthCheckInspect(result)
    \/ HealthCheckRemove
    \/ RestartPool
    \/ RestartPoolStop
    \/ \E newSize \in 1..MaxPoolSize : AdminSetPoolSize(newSize)
    \/ \E url \in Urls, ip \in IPs : PostSession(url, ip)
    \/ \E id \in Eids : GetQueueStatus(id)
    \/ \E id \in Eids : QueueJoin(id)
    \/ \E id \in Eids : LeaveQueue(id)
    \/ AdminDrainQueue
    \/ \E id \in Sids : UserEndSession(id)
    \/ \E id \in Sids : AdminKillSession(id)
    \/ \E ip \in IPs : AdminBlockIp(ip)
    \/ \E ip \in IPs : AdminUnblockIp(ip)
    \/ \E ip \in IPs : AdminWhitelistIp(ip)
    \/ AdminPause
    \/ AdminResume
    \/ \E duration \in 1..MaxDuration : AdminSetSessionDuration(duration)
    \/ ProcessQueue
    \/ \E id \in Eids : ProcessQueueResume(id)
    \/ CheckExpiredSessions
    \/ CheckExpiredResume
    \/ ExpiryIntervalFires
    \/ TimedTick
    \/ BroadcastIntervalFires
    \/ SubTick
    \/ \E c \in Clients : ClientConnect(c)
    \/ \E c \in Clients, sid \in Sids, viewer \in BOOLEAN : ClientJoinSession(c, sid, viewer)
    \/ \E c \in Clients, sid \in Sids : ClientReconnect(c, sid)
    \/ \E c \in Clients : ClientDisconnect(c)
    \/ TimerBroadcast
    \/ \E sid \in Sids, handle \in 0..MaxTime : GraceTimerFires(sid, handle)
    \/ Tick
    \/ NextDay

Spec == Init /\ [][Next]_vars

\* The pool under sessions that start and end: one client, every pool loop.
\* Requests are posted while session ids remain for them.
NextPool ==
    \/ \E id \in Cids : ContainerCreated(id)
    \/ \E id \in Cids : ProbeReady(id)
    \/ \E id \in Cids : ReleaseDone(id)
    \/ HealthCheck
    \/ \E result \in {"running", "exited", "error"} : HealthCheckInspect(result)
    \/ HealthCheckRemove
    \/ RestartPool
    \/ RestartPoolStop
    \/ (qs.ent[MaxSid].status = "none" /\ PostSession(UrlHttps, IP1))
    \/ \E id \in Sids : UserEndSession(id)
    \/ ProcessQueue
    \/ \E id \in Eids : ProcessQueueResume(id)

SpecPool == Init /\ [][NextPool]_vars

\* The admission queue: two clients, the worker, leave, drain and an IP block,
\* over the initial pool.
NextQueue ==
    \/ \E id \in Cids : ProbeReady(id)
    \/ \E url \in {UrlHttps, UrlBare}, ip \in IPs : PostSession(url, ip)
    \/ \E id \in Eids : GetQueueStatus(id)
    \/ \E id \in Eids : LeaveQueue(id)
    \/ AdminDrainQueue
    \/ \E ip \in IPs : AdminBlockIp(ip)
    \/ ProcessQueue
    \/ \E id \in Eids : ProcessQueueResume(id)

SpecQueue == Init /\ [][NextQueue]_vars

\* Sessions under the clock and the expiry loop.  The timers of the clock and of
\* the loop keep firing, and a container stop/remove the loop awaits settles.
NextLive ==
    \/ \E id \in Cids : ContainerCreated(id)
    \/ \E id \in Cids : ProbeReady(id)
    \/ \E id \in Cids : ReleaseDone(id)
    \/ (qs.ent[MaxSid].status = "none" /\ PostSession(UrlHttps, IP1))
    \/ \E id \in Sids : UserEndSession(id)
    \/ ProcessQueue
    \/ \E id \in Eids : ProcessQueueResume(id)
    \/ CheckExpiredSessions
    \/ CheckExpiredResume
    \/ Tick

SpecLive ==
    /\ Init
    /\ [][NextLive]_vars
    /\ WF_vars(Tick)
    /\ WF_vars(CheckExpiredSessions)
    /\ WF_vars(CheckExpiredResume)

\* The pool alone under its disturbances: containers that die, restarts and
\* changes of the target, with no session.
NextConverge ==
    \/ \E id \in Cids : ContainerCreated(id)
    \/ \E id \in Cids : ProbeReady(id)
    \/ HealthCheck
    \/ \E result \in {"running", "exited", "error"} : HealthCheckInspect(result)
    \/ HealthCheckRemove
    \/ RestartPool
    \/ RestartPoolStop
    \/ \E newSize \in 1..MaxPoolSize : AdminSetPoolSize(newSize)

SpecConverge == Init /\ [][NextConverge]_vars

\* The pool under changes of its target while sessions start and end.
NextShrink ==
    \/ \E id \in Cids : ContainerCreated(id)
    \/ \E id \in Cids : ProbeReady(id)
    \/ \E id \in Cids : ReleaseDone(id)
    \/ \E newSize \in 1..MaxPoolSize : AdminSetPoolSize(newSize)
    \/ PostSession(UrlHttps, IP1)
    \/ \E id \in Sids : UserEndSession(id)
    \/ ProcessQueue
    \/ \E id \in Eids : ProcessQueueResume(id)

SpecShrink == Init /\ [][NextShrink]_vars

\* The pool under its probes and the health loop alone: every creation and
\* every probe settles (answered, or given up at the ceiling), and the health
\* loop keeps running and each of its awaits settles.
NextBoot ==
    \/ \E id \in Cids : ContainerCreated(id)
    \/ \E id \in Cids : ProbeReady(id)
    \/ \E id \in Cids : ProbeTimeout(id)
    \/ HealthCheck
    \/ \E result \in {"running", "exited", "error"} : HealthCheckInspect(result)
    \/ HealthCheckRemove

SpecBoot ==
    /\ Init /\ [][NextBoot]_vars
    /\ WF_vars(\E id \in Cids : ContainerCreated(id))
    /\ WF_vars(\E id \in Cids : ProbeReady(id) \/ ProbeTimeout(id))
    /\ WF_vars(HealthCheck)
    /\ WF_vars(\E result \in {"running", "exited", "error"} : HealthCheckInspect(result))
    /\ WF_vars(HealthCheckRemove)

\* One client posting again and again to a deployment that allows one session
\* per IP and day, while the pool is grown to two containers.
NextRace ==
    \/ \E id \in Cids : ContainerCreated(id)
    \/ \E id \in Cids : ProbeReady(id)
    \/ AdminSetPoolSize(MaxPoolSize)
    \/ PostSession(UrlHttps, IP1)
    \/ ProcessQueue
    \/ \E id \in Eids : ProcessQueueResume(id)

SpecRace == InitWith(RateLimitStrict) /\ [][NextRace]_vars

\* Sessions that start and end across a change of the calendar day.
NextMidnight ==
    \/ \E id \in Cids : ContainerCreated(id)
    \/ \E id \in Cids : ProbeReady(id)
    \/ \E id \in Cids : ReleaseDone(id)
    \/ PostSession(UrlHttps, IP1)
    \/ \E id \in Sids : UserEndSession(id)
    \/ ProcessQueue
    \/ \E id \in Eids : ProcessQueueResume(id)
    \/ NextDay

SpecMidnight == Init /\ [][NextMidnight]_vars

\* The pool when the container runtime may refuse a creation, under the health
\* loop and restarts.
NextPorts ==
    \/ \E id \in Cids : ContainerCreated(id)
    \/ \E id \in Cids : ContainerCreateFailed(id)
    \/ \E id \in Cids : ProbeReady(id)
    \/ HealthCheck
    \/ \E result \in {"running", "exited", "error"} : HealthCheckInspect(result)
    \/ HealthCheckRemove
    \/ RestartPool
    \/ RestartPoolStop

SpecPorts == Init /\ [][NextPorts]_vars

\* The session gateway: sockets connect, join, reconnect and disconnect while
\* the session of the initial container is admitted and ended, under the clock.
NextGateway ==
    \/ \E id \in Cids : ProbeReady(id)
    \/ (qs.ent[MaxSid].status = "none" /\ PostSession(UrlHttps, IP1))
    \/ \E id \in Sids : UserEndSession(id)
    \/ ProcessQueue
    \/ \E id \in Eids : ProcessQueueResume(id)
    \/ \E c \in Clients : ClientConnect(c)
    \/ \E c \in Clients, sid \in Sids, viewer \in BOOLEAN : ClientJoinSession(c, sid, viewer)
    \/ \E c \in Clients, sid \in Sids : ClientReconnect(c, sid)
    \/ \E c \in Clients : ClientDisconnect(c)
    \/ TimerBroadcast
    \/ \E sid \in Sids, handle \in 0..MaxTime : GraceTimerFires(sid, handle)
    \/ Tick

SpecGateway == Init /\ [][NextGateway]_vars

\* Subscribed queue entries: two clients enqueue and subscribe, the worker
\* serves them from the initial pool, an admin drains the queue.
NextNotify ==
    \/ \E id \in Cids : ProbeReady(id)
    \/ \E ip \in IPs : PostSession(UrlHttps, ip)
    \/ \E id \in Eids : QueueJoin(id)
    \/ AdminDrainQueue
    \/ ProcessQueue
    \/ \E id \in Eids : ProcessQueueResume(id)

SpecNotify == Init /\ [][NextNotify]_vars

\* One client against its daily limit: its sessions start and end, containers
\* are replaced, and it keeps posting requests and subscribing to them.
NextLimit ==
    \/ \E id \in Cids : ContainerCreated(id)
    \/ \E id \in Cids : ProbeReady(id)
    \/ \E id \in Cids : ReleaseDone(id)
    \/ PostSession(UrlHttps, IP1)
    \/ \E id \in Eids : QueueJoin(id)
    \/ \E id \in Sids : UserEndSession(id)
    \/ ProcessQueue
    \/ \E id \in Eids : ProcessQueueResume(id)

SpecLimit == Init /\ [][NextLimit]_vars

\* Requests with allowed and with blocked URL schemes, served from the initial pool.
NextReject ==
    \/ \E id \in Cids : ProbeReady(id)
    \/ \E url \in {UrlHttps, UrlFile, UrlFileUpper}, ip \in IPs : PostSession(url, ip)
    \/ \E id \in Eids : QueueJoin(id)
    \/ ProcessQueue
    \/ \E id \in Eids : ProcessQueueResume(id)

SpecReject == Init /\ [][NextReject]_vars

\* Pause and resume around one client's requests and session, with one socket
\* bound to the session, under the clock, the broadcast and the expiry loop.
NextPause ==
    \/ \E id \in Cids : ProbeReady(id)
    \/ PostSession(UrlHttps, IP1)
    \/ ProcessQueue
    \/ \E id \in Eids : ProcessQueueResume(id)
    \/ AdminPause
    \/ AdminResume
    \/ ClientConnect(1)
    \/ \E sid \in Sids : ClientJoinSession(1, sid, FALSE)
    \/ TimerBroadcast
    \/ CheckExpiredSessions
    \/ CheckExpiredResume
    \/ Tick

SpecPause == Init /\ [][NextPause]_vars

\* Two sessions at a time against the expiry loop on its interval: the pool is
\* resized to two containers, one client's requests are served, the clock runs.
NextExpiry ==
    \/ \E id \in Cids : ContainerCreated(id)
    \/ \E id \in Cids : ProbeReady(id)
    \/ AdminSetPoolSize(MaxPoolSize)
    \/ PostSession(UrlHttps, IP1)
    \/ ProcessQueue
    \/ \E id \in Eids : ProcessQueueResume(id)
    \/ ExpiryIntervalFires
    \/ CheckExpiredResume
    \/ TimedTick

SpecExpiry == Init /\ [][NextExpiry]_vars

\* An admin changes the session duration while requests are served and the
\* clock runs.
NextDuration ==
    \/ \E id \in Cids : ProbeReady(id)
    \/ \E ip \in IPs : PostSession(UrlHttps, ip)
    \/ ProcessQueue
    \/ \E id \in Eids : ProcessQueueResume(id)
    \/ \E duration \in 1..MaxDuration : AdminSetSessionDuration(duration)
    \/ Tick

SpecDuration == Init /\ [][NextDuration]_vars

\* One socket bound to a session of two ticks against the broadcast on its
\* interval, with the clock in sub-ticks.
NextWarning ==
    \/ \E id \in Cids : ProbeReady(id)
    \/ AdminSetSessionDuration(MaxDuration)
    \/ PostSession(UrlHttps, IP1)
    \/ ProcessQueue
    \/ \E id \in Eids : ProcessQueueResume(id)
    \/ ClientConnect(1)
    \/ \E sid \in Sids : ClientJoinSession(1, sid, FALSE)
    \/ BroadcastIntervalFires
    \/ SubTick

SpecWarning == Init /\ [][NextWarning]_vars

(***************************************************************************)
(* Properties.                                                             *)
(***************************************************************************)

\* C1: in every reachable state no two active sessions reference the same
\* container, and every step turns exactly as many containers from warm to
\* active as it creates sessions (none or one), the new session referencing
\* the container that was turned.
C1_ActiveSessionsHoldDistinctContainers ==
    /\ [](\A s, t \in Sids :
            (s /= t /\ ss.sessions[s].status = "active" /\ ss.sessions[t].status = "active")
            => ss.sessions[s].poolId /= ss.sessions[t].poolId)
    /\ [][LET flipped == {id \in Cids : cs.cont[id].status = "warm"
                                         /\ cs'.cont[id].status = "active"}
              created == {s \in Sids : ss.sessions[s].status = "none"
                                       /\ ss'.sessions[s].status = "active"}
          IN  /\ Cardinality(flipped) <= 1
              /\ Cardinality(created) = Cardinality(flipped)
              /\ \A s \in created : ss'.sessions[s].poolId \in flipped]_vars

\* Two sessions are active at once, each on a container that is active in the pool.
C1_TwoActiveSessions ==
    \E s, t \in Sids :
        /\ s /= t
        /\ ss.sessions[s].status = "active" /\ ss.sessions[t].status = "active"
        /\ InPool(cs, ss.sessions[s].poolId) /\ InPool(cs, ss.sessions[t].poolId)
        /\ cs.cont[ss.sessions[s].poolId].status = "active"
        /\ cs.cont[ss.sessions[t].poolId].status = "active"

\* C2: a container serves at most one session in its lifetime: no two sessions,
\* active or ended, were given the same container; a container that was acquired
\* is never warm (or booting) again; and the container of an ended session is
\* marked destroying or is out of the pool.
C2_ContainerServesOneSession ==
    /\ [](\A s, t \in Sids :
            (s /= t /\ ss.sessions[s].status /= "none" /\ ss.sessions[t].status /= "none")
            => ss.sessions[s].poolId /= ss.sessions[t].poolId)
    /\ [](\A s \in Sids : ss.sessions[s].status = "ended"
            => \/ ~InPool(cs, ss.sessions[s].poolId)
               \/ cs.cont[ss.sessions[s].poolId].status = "destroying")
    /\ [][\A id \in Cids :
            /\ cs.cont[id].status = "active"
               => cs'.cont[id].status \in {"active", "destroying", "collected"}
            /\ cs.cont[id].status = "destroying"
               => cs'.cont[id].status \in {"destroying", "collected"}]_vars

\* A session has ended, its container is gone from the pool, and the replacement
\* container serves another session.
C2_EndedAndReplaced ==
    \E s, t \in Sids :
        /\ ss.sessions[s].status = "ended"
        /\ ~InPool(cs, ss.sessions[s].poolId)
        /\ ss.sessions[t].status = "active"
        /\ InPool(cs, ss.sessions[t].poolId)

\* C3: in every reachable state no two containers in the pool have the same
\* port, and the port of every container in the pool is inside
\* [portRangeStart, portRangeEnd] and recorded in usedPorts.
C3_PoolPortsUniqueAndReserved ==
    /\ \A i, j \in 1..Len(cs.pool) :
            i /= j => cs.cont[cs.pool[i]].port /= cs.cont[cs.pool[j]].port
    /\ \A id \in Range(cs.pool) :
            cs.cont[id].port \in Ports /\ cs.cont[id].port \in cs.usedPorts

\* C4: in every reachable state at most one entry of the waiting sequence, with
\* status waiting, exists for any raw IP.
C4_OneWaitingEntryPerIp ==
    \A ip \in IPs :
        Cardinality({id \in Range(qs.queue) :
                        qs.ent[id].status = "waiting" /\ qs.ent[id].clientIp = ip}) <= 1

\* C5: addToQueue(url, ip), called in any reachable state in which ip has a
\* waiting entry in the queue, returns that entry's id, sets the entry's url to
\* the new url, creates no entry, and leaves the queue and every entry's
\* position as they were.
C5_AddToQueueCoalesces ==
    \A ip \in IPs, url \in {UrlHttps, UrlBare} :
        \A id \in Range(qs.queue) :
            (qs.ent[id].status = "waiting" /\ qs.ent[id].clientIp = ip /\ FreshEid(qs) /= 0)
            => LET r == AddToQueue(qs, url, ip)
               IN  /\ r.ret = id
                   /\ r.qs.ent[id].url = url
                   /\ r.qs.entries = qs.entries
                   /\ r.qs.queue = qs.queue
                   /\ \A e \in Eids : r.qs.ent[e].status = qs.ent[e].status
                                      /\ r.qs.ent[e].position = qs.ent[e].position

\* C6: whenever two entries are both waiting in the queue and one was enqueued
\* before the other (entry ids are handed out in admission order), the earlier
\* one has the smaller position.
C6_WaitingEntriesInAdmissionOrder ==
    \A a, b \in Range(qs.queue) :
        (a < b /\ qs.ent[a].status = "waiting" /\ qs.ent[b].status = "waiting")
        => qs.ent[a].position < qs.ent[b].position

\* C7: in every reachable state the entry at index i of the waiting sequence
\* has position i, and getQueueEntry(id) returns position 0 for every entry it
\* finds that is not in the waiting sequence.
C7_PositionsAreIndexesOrZero ==
    /\ \A i \in 1..Len(qs.queue) : qs.ent[qs.queue[i]].position = i
    /\ \A id \in Eids :
            (GetQueueEntry(qs, id).found /\ id \notin Range(qs.queue))
            => GetQueueEntry(qs, id).ret.position = 0

\* C8: endSession is idempotent: in every reachable state, for every session
\* that endSession was already called on, a further endSession call (with any
\* reason) returns false and changes nothing: not the duration window, not the
\* end log, not the pool.
C8_EndSessionIdempotent ==
    \A s \in Sids, reason \in {"user_ended", "admin_killed", "expired", "abandoned"} :
        ss.sessions[s].status = "ended"
        => LET w == [cs |-> cs, ss |-> ss, log |-> log]
               e == EndSession(w, s, reason)
           IN  e.ret = FALSE /\ e.w = w

\* C9: releaseContainer is idempotent: in every reachable state, for every
\* container that releaseContainer was already called on (the container of an
\* ended session, its stop/remove in flight or finished), a further
\* releaseContainer call starts no stop/remove, creates no replacement and
\* reserves or frees no port.
C9_ReleaseContainerIdempotent ==
    \A s \in Sids :
        ss.sessions[s].status = "ended"
        => LET r == ReleaseContainer(cs, ss.sessions[s].poolId)
           IN  /\ ~r.awaiting
               /\ r.cs.creating = cs.creating
               /\ r.cs.usedPorts = cs.usedPorts
               /\ r.cs.pool = cs.pool
               /\ r.cs.cont = cs.cont

\* C10: every session that is active is eventually ended, and in every
\* reachable state the container of an ended session is marked destroying or
\* is out of the pool.
C10_SessionsEventuallyEnd ==
    /\ \A s \in Sids :
            (ss.sessions[s].status = "active") ~> (ss.sessions[s].status = "ended")
    /\ [](\A s \in Sids : ss.sessions[s].status = "ended"
            => \/ ~InPool(cs, ss.sessions[s].poolId)
               \/ cs.cont[ss.sessions[s].poolId].status \notin {"warm", "active"})

\* The expiry loop ended a session whose time was up, and its container has
\* left the pool.
C10_ExpiredSessionEnded ==
    \E s \in Sids :
        /\ ss.sessions[s].status = "ended"
        /\ log[s].reason = "expired"
        /\ ss.sessions[s].expiresAt <= now
        /\ ~InPool(cs, ss.sessions[s].poolId)

\* C11: in every reachable state in which no health check, restart or release
\* is under way, two health ticks later (every inspect reporting a running
\* container, every creation in flight completing before the next tick, no
\* creation refused) the number of containers in the pool equals poolSize, and
\* it still does after a third tick.
C11_PoolConvergesWithinTwoTicks ==
    (hc.pc = "idle" /\ rs.pc = "idle" /\ \A id \in Cids : cs.releasing[id] = 0)
    => LET c2 == CreationsSettle(HealthTick(CreationsSettle(HealthTick(CreationsSettle(cs)))))
           c3 == CreationsSettle(HealthTick(c2))
       IN  FreshCid(c3) /= 0
           => Len(c2.pool) = c2.poolSize /\ Len(c3.pool) = c3.poolSize

\* C12: a step that starts container creations leaves no more than poolSize
\* containers counting those in the pool that are not being destroyed and the
\* creations in flight.
C12_CreationCappedByPoolSize ==
    [][(cs'.creating \ cs.creating /= {})
       => Cardinality({id \in Range(cs'.pool) : cs'.cont[id].status /= "destroying"})
          + Cardinality(cs'.creating) <= cs'.poolSize]_vars

\* C13: in every reachable state every session with status active references
\* a container that is in the pool with status active.
C13_ActiveSessionOnActiveContainer ==
    \A s \in Sids :
        ss.sessions[s].status = "active"
        => /\ InPool(cs, ss.sessions[s].poolId)
           /\ cs.cont[ss.sessions[s].poolId].status = "active"

\* The places of an event in the events a handler emitted.
Places(out, to, ev, sid, flag) ==
    {i \in 1..Len(out) : out[i] = [to |-> to, ev |-> ev, sid |-> sid, flag |-> flag]}

\* C14: each session has at most one client that has been told it is the
\* primary; and when a controller join arrives while a different connected
\* client is the primary, that client is sent session:takeover before the
\* joiner is sent session:joined with isPrimary, and the joiner is the primary
\* from then on.
C14_OnePrimaryTakeoverBeforeJoined ==
    [][/\ \A sid \in Sids : Cardinality({c \in Clients : sid \in gw'.primaryTold[c]}) <= 1
       /\ \A sid \in Sids, c \in Clients :
            LET prior == gw.sessionPrimary[sid]
                joined == Places(gw'.out, c, "session:joined", sid, "isPrimary")
            IN  (gw'.turn /= gw.turn /\ joined /= {} /\ prior /= 0 /\ prior /= c
                 /\ gw.sockets[prior] = "open")
                => /\ \E i \in Places(gw'.out, prior, "session:takeover", sid, "") :
                        \A j \in joined : i < j
                   /\ gw'.sessionPrimary[sid] = c
                   /\ sid \notin gw'.primaryTold[prior]]_vars

\* A primary has been taken over by a second controller.
C14_PrimaryTakenOver ==
    \E i \in 1..Len(gw.out) :
        /\ gw.out[i].ev = "session:takeover"
        /\ gw.sessionPrimary[gw.out[i].sid] /= gw.out[i].to
        /\ gw.out[i].sid \in gw.primaryTold[gw.sessionPrimary[gw.out[i].sid]]

\* C15: a session is ended with reason abandoned only when no client has been
\* bound to it for the whole grace period since its last client disconnected;
\* a grace timer is pending only while the session has no bound client (a join
\* cancels it) and it was started at the last-client disconnect of the current
\* empty period (a fresh timer, not an earlier one).
C15_AbandonedOnlyAfterFullGrace ==
    [][\A sid \in Sids :
        /\ (log'[sid].ends > log[sid].ends /\ log'[sid].reason = "abandoned")
           => /\ gw.sessionClients[sid] = {}
              /\ gw.emptySince[sid] >= 0
              /\ now - gw.emptySince[sid] >= GraceTicks
        /\ gw'.timers[sid] /= {}
           => /\ gw'.sessionClients[sid] = {}
              /\ gw'.timers[sid] = {gw'.emptySince[sid]}]_vars

\* A session was abandoned after a second client had joined and left it later
\* than the first.
C15_AbandonedAfterRejoin ==
    \E sid \in Sids :
        /\ log[sid].reason = "abandoned"
        /\ \A c \in Clients : sid \in gw.joinedSent[c] /\ gw.sockets[c] = "closed"
        /\ gw.emptySince[sid] >= 1

\* C17: every session:timer a socket is sent for a session comes after a
\* session:joined it was sent for that session, and once a socket has been sent
\* session:ended for a session it is sent no session:timer, session:warning or
\* further session:ended for it.
C17_JoinedFirstEndedLast ==
    [][gw'.turn /= gw.turn
       => \A i \in 1..Len(gw'.out) :
            LET e == gw'.out[i]
                before == {gw'.out[j] : j \in 1..(i - 1)}
            IN  /\ e.ev = "session:timer"
                   => \/ e.sid \in gw.joinedSent[e.to]
                      \/ \E b \in before :
                            b.to = e.to /\ b.sid = e.sid /\ b.ev = "session:joined"
                /\ e.ev \in {"session:timer", "session:warning", "session:ended"}
                   => /\ e.sid \notin gw.endedSent[e.to]
                      /\ \A b \in before :
                            ~(b.to = e.to /\ b.sid = e.sid /\ b.ev = "session:ended")]_vars

\* A socket that was sent session:timer and then session:ended for a session
\* is still connected while the broadcast runs again.
C17_EndedThenBroadcast ==
    \E c \in Clients, sid \in Sids :
        /\ sid \in gw.endedSent[c]
        /\ sid \in gw.joinedSent[c]
        /\ gw.sockets[c] = "open"
        /\ gw.out = <<>>
        /\ ss.sessions[sid].status = "ended"

\* The place of a status in the order waiting, preparing, connecting, then
\* ready or rate_limited.
StatusRank(st) ==
    IF st = "waiting" THEN 1
    ELSE IF st = "preparing" THEN 2
    ELSE IF st = "connecting" THEN 3
    ELSE 4

\* C16: the statuses delivered to the callback of a queue entry follow the
\* order waiting, preparing, connecting, ready or rate_limited: each delivered
\* status comes strictly later in that order than the one delivered before it.
C16_StatusesDeliveredInOrder ==
    \A id \in Eids : \A i \in 1..(Len(qs.delivered[id]) - 1) :
        StatusRank(qs.delivered[id][i]) < StatusRank(qs.delivered[id][i + 1])

\* C18: no session is created for an IP that is blocked at the moment of the
\* creation, whenever the block was set after the enqueue; and an IP that has
\* just been whitelisted is allowed by checkRateLimit whatever its counter.
C18_NoSessionForBlockedIp ==
    [][/\ \A id \in Eids :
            (qs'.ent[id].status = "ready" /\ qs.ent[id].status /= "ready")
            => qs.ent[id].clientIp \notin ss'.blockedIps
       /\ \A ip \in IPs : CheckRateLimit(WhitelistIp(ss, ip), ip).allowed]_vars

\* An IP that has used up its daily limit and is neither whitelisted nor blocked.
OverDailyLimit(ip) ==
    /\ ss.lastResetDate = day
    /\ ss.ipSessionCount[ip] >= ss.rateLimitPerDay
    /\ ip \notin ss.whitelistedIps
    /\ ip \notin ss.blockedIps

C20_BlockedProtocolRejected ==
    /\ \A id \in Eids :
        qs.ent[id].status /= "none"
        => ToLowerCase(qs.ent[id].url.scheme) \notin BlockedProtocols
    /\ \A url \in {UrlFile, UrlFileUpper}, ip \in IPs :
        LET r == CreateSession([cs |-> cs, ss |-> ss, log |-> log], url, ip)
        IN  /\ r.kind = "error"
            /\ r.w.cs = cs
            /\ r.w.log = log
            /\ r.w.ss.sessions = ss.sessions
            /\ r.w.ss.ipSessionCount = ResetDailyStats(ss).ipSessionCount

\* C21: while paused, every POST /session is answered 503 and leaves the queue
\* as it is; pausing or resuming changes no session; and while paused an active
\* session still gets session:timer for each bound socket from the broadcast,
\* and the expiry loop still ends it once its expiresAt has passed.
C21_PauseRejectsAndLeavesSessions ==
    [][/\ ss.paused
          => \A url \in Urls, ip \in IPs :
                LET r == SessionControllerCreate(qs, ss, url, ip)
                IN  r.code = 503 /\ r.qs = qs
       /\ ss'.paused /= ss.paused => ss'.sessions = ss.sessions
       /\ ss.paused
          => \A sid \in Sids, c \in Clients :
                (ss.sessions[sid].status = "active" /\ c \in gw.sessionClients[sid]
                 /\ gw.sockets[c] = "open")
                => Places(BroadcastTimerUpdates(GwBegin(gw), ss, 1, now).out,
                          c, "session:timer", sid, "") /= {}
       /\ (ss.paused /\ exp.pc = "idle")
          => \A sid \in Sids :
                (ss.sessions[sid].status = "active" /\ ss.sessions[sid].expiresAt <= now
                 /\ \A o \in 1..(sid - 1) : ss.sessions[o].status /= "active")
                => LET r == CheckExpiredSweep([cs |-> cs, ss |-> ss, log |-> log], 1, now)
                   IN  /\ r.w.ss.sessions[sid].status = "ended"
                       /\ r.w.log[sid].reason = "expired"]_vars

\* The service is paused while a session past its expiresAt is still active and
\* its socket has just been sent session:timer.
C21_PausedWithLiveSession ==
    /\ ss.paused
    /\ \E sid \in Sids :
        /\ ss.sessions[sid].status = "active"
        /\ ss.sessions[sid].expiresAt <= now
        /\ Places(gw.out, 1, "session:timer", sid, "") /= {}

\* C22: an active session whose expiresAt has passed is ended no later than one
\* period of the expiry loop after expiresAt: no session is still active at a
\* time later than expiresAt + LoopPeriod.
C22_ExpiredEndedWithinOnePeriod ==
    \A s \in Sids :
        ss.sessions[s].status = "active" => now <= ss.sessions[s].expiresAt + LoopPeriod

\* C23: every stored session satisfies expiresAt - startedAt = the session
\* duration currently configured (as last set by setSessionDuration).
C23_StoredSessionsHaveCurrentDuration ==
    \A s \in Sids :
        ss.sessions[s].status /= "none"
        => ss.sessions[s].expiresAt - ss.sessions[s].startedAt = ss.sessionDuration

\* C24: a socket that was bound to a session before its time remaining reached
\* the warning threshold and is still bound when the session's expiresAt has
\* come has been sent session:warning for it exactly once.
C24_WarningExactlyOnce ==
    \A c \in Clients, s \in Sids :
        (/\ s \in clk.boundEarly[c]
         /\ c \in gw.sessionClients[s]
         /\ gw.sockets[c] = "open"
         /\ ss.sessions[s].status = "active"
         /\ now >= ss.sessions[s].expiresAt)
        => clk.warned[c][s] = 1

\* C25: no raw client IP appears in the body of an admin listing of sessions,
\* of the queue or of the rate limits: every IP in them is anonymized.
C25_ListingsCarryNoRawIp ==
    (AdminSessionsIps(ss) \cup AdminQueueIps(qs) \cup AdminRateLimitsIps(ss)) \cap IPs = {}

\* C26: once the broadcast has found a tracked session not active, no binding
\* of it is left in the gateway: the session has no entry in sessionClients,
\* sessionViewers or sessionPrimary, and none of its sockets is left in
\* clientSessions (for it) or in clientIsViewer.
C26_BroadcastDropsAllBindings ==
    LET g == BroadcastTimerUpdates(GwBegin(gw), ss, 1, Clock)
    IN  \A sid \in Sids :
            (gw.sessionClients[sid] /= {} /\ ss.sessions[sid].status /= "active")
            => /\ g.sessionClients[sid] = {}
               /\ g.sessionViewers[sid] = {}
               /\ g.sessionPrimary[sid] = 0
               /\ \A c \in gw.sessionClients[sid] :
                    g.clientSessions[c] /= sid /\ ~g.clientIsViewer[c]

\* C27: the sessionId recorded on an active container is the id of the session
\* whose poolId is that container, and the admin pool view shows the container
\* as reconnecting exactly when that session is in reconnectingSessions.
C27_ContainerNamesItsSession ==
    \A id \in Cids, sid \in Sids :
        (/\ cs.cont[id].status = "active"
         /\ ss.sessions[sid].status = "active"
         /\ ss.sessions[sid].poolId = id)
        => /\ cs.cont[id].sessionId = sid
           /\ (AdminPoolStatus(cs, gw, id) = "reconnecting")
                <=> gw.reconnectingSessions[sid].has

\* C28: drainQueue marks every waiting entry rate_limited, calls each one's
\* callback once, returns the number of entries that were waiting and leaves
\* the waiting sequence, entries, ipQueueMap and the callbacks empty; and an
\* entry the worker held when a drain ran is never waiting again.
C28_DrainEmptiesTheQueue ==
    LET r == DrainQueue(qs)
        waiting == Range(qs.queue)
    IN  /\ \A id \in waiting :
               /\ r.qs.ent[id].status = "rate_limited"
               /\ id \in qs.callbacks
                    => r.qs.delivered[id] = Append(qs.delivered[id], "rate_limited")
        /\ r.ret = Cardinality(waiting)
        /\ r.qs.queue = <<>>
        /\ r.qs.entries = {}
        /\ \A ip \in IPs : r.qs.ipQueueMap[ip] = 0
        /\ r.qs.callbacks = {}
        /\ \A id \in qs.heldAtDrain : qs.ent[id].status /= "waiting"

\* What a step of restartPool leaves of the active containers of c in c2: the
\* container object, its place in the pool and its port reservation.
ActiveUntouched(c, c2) ==
    \A id \in Cids :
        c.cont[id].status = "active"
        => /\ c2.cont[id] = c.cont[id]
           /\ id \in Range(c.pool) => id \in Range(c2.pool)
           /\ c.cont[id].port \in c.usedPorts => c.cont[id].port \in c2.usedPorts

\* C29: restartPool never changes the status of an active container, never
\* removes it from the pool and never frees its port, at the start of a restart
\* and at each resumption of one in progress, whatever was acquired meanwhile.
C29_RestartSparesActive ==
    /\ rs.pc = "idle" => ActiveUntouched(cs, RestartPoolSweep(cs, {}).cs)
    /\ rs.pc = "stop" => ActiveUntouched(cs, RestartPoolStopped(cs, rs).cs)

\* C30: setPoolSize(n) with n below the current pool size destroys no warm
\* container, and the pool then drains as sessions end: releaseContainer starts
\* no replacement while the pool holds more containers than the target.
C30_ShrinkIsPassive ==
    /\ \A n \in 1..MaxPoolSize :
           n < Len(cs.pool)
           => \A id \in Range(cs.pool) :
                  cs.cont[id].status = "warm"
                  => /\ id \in Range(SetPoolSize(cs, n).pool)
                     /\ SetPoolSize(cs, n).cont[id].status = "warm"
    /\ \A id \in Range(cs.pool) :
           (cs.cont[id].status = "active" /\ Len(cs.pool) > cs.poolSize)
           => ReleaseContainer(cs, id).cs.creating = cs.creating

\* C31: a container turns warm only from booting, when its own readiness probe
\* is answered, and only while it is in the pool: the probe's callback, the one
\* place that writes warm, never sets an active, destroying or removed
\* container to warm.
C31_WarmOnlyFromBootingInPool ==
    \A id \in cs.probing :
        (cs.cont[id].status /= "warm" /\ ProbeResolved(cs, id).cont[id].status = "warm")
        => /\ cs.cont[id].status = "booting"
           /\ id \in Range(cs.pool)

\* C32: a container that is still booting in the pool after its readiness probe
\* gave up at the ceiling is eventually out of the pool: the health loop
\* removes and replaces it, so none stays booting for ever.
C32_StuckBootingIsRecycled ==
    \A id \in Cids :
        (id \in Range(cs.pool) /\ cs.cont[id].status = "booting" /\ id \notin cs.probing)
        ~> (id \notin Range(cs.pool))

\* C33: the estimated wait is 0 whenever a container is warm, and otherwise it
\* is ceil(queue length / 3) times the average session duration (the mean of
\* the rolling window, or the configured duration when the window is empty).
C33_EstimatedWaitIsCeilThirdTimesAvg ==
    LET avg == GetAvgSessionDuration(ss)
        e == GetEstimatedWaitTime(qs, ss, cs)
    IN  /\ GetWarmCount(cs) > 0 => e = 0
        /\ GetWarmCount(cs) = 0 => e * avg.den = CeilDiv(Len(qs.queue), 3) * avg.num

\* C34: the per-day session counter of an IP that is not whitelisted never
\* exceeds rateLimitPerDay, however requests, worker runs and session
\* creations for the IP interleave.
C34_CounterWithinDailyLimit ==
    \A ip \in IPs :
        ip \notin ss.whitelistedIps => ss.ipSessionCount[ip] <= ss.rateLimitPerDay

\* C35: while paused stays true no step creates a session and no step turns a
\* warm container active, whatever queue entries were waiting or in the
\* worker's hands when the pause was set.
C35_NothingStartsWhilePaused ==
    [][(ss.paused /\ ss'.paused)
       => /\ \A sid \in Sids :
                ss.sessions[sid].status = "none" => ss'.sessions[sid].status = "none"
          /\ \A id \in Cids :
                ~(cs.cont[id].status = "warm" /\ cs'.cont[id].status = "active")]_vars

\* The entries removeFromQueue was called for while the worker held them in
\* its 500 ms delay: only removeFromQueue takes a preparing entry out of entries.
LeftWhileHeld(q) == {id \in Eids : q.ent[id].status = "preparing" /\ id \notin q.entries}

\* C36: once removeFromQueue(id) has returned, the worker creates no session
\* and acquires no container for entry id, also when the entry was already in
\* the worker's hands at the call.
C36_NoSessionAfterLeave ==
    \A id \in LeftWhileHeld(qs) :
        FreshSid(ss) /= 0
        => LET w == ProcessQueueConnect(World, id)
           IN  /\ \A sid \in Sids : w.ss.sessions[sid].status = ss.sessions[sid].status
               /\ \A cid \in Cids : w.cs.cont[cid].status = cs.cont[cid].status

\* The callback of entry id in q was last called with a terminal status.
ToldTerminal(q, id) ==
    /\ Len(q.delivered[id]) >= 1
    /\ q.delivered[id][Len(q.delivered[id])] \in {"ready", "rate_limited"}

\* C37: a subscribed entry ends with a callback that carries ready or
\* rate_limited: neither the worker's take nor its resumption after the delay
\* removes a subscribed entry from entries without such a callback.
C37_WorkerRemovesOnlyWithTerminalCallback ==
    /\ LET id == NextToProcess(World)
           w == ProcessQueueTake(World)
       IN  (id /= 0 /\ id \in qs.callbacks /\ id \notin w.qs.entries)
           => ToldTerminal(w.qs, id)
    /\ \A id \in Eids :
           (/\ qs.ent[id].status = "preparing"
            /\ id \in qs.entries
            /\ id \in qs.callbacks
            /\ FreshSid(ss) /= 0)
           => LET w == ProcessQueueConnect(World, id)
              IN  id \notin w.qs.entries => ToldTerminal(w.qs, id)

\* C38: peakConcurrent is never below the number of sessions that are active,
\* across session starts, session ends and the daily reset of the statistics.
C38_PeakCoversActive ==
    ss.peakConcurrent >= Cardinality(GetActiveSessions(ss))

\* C39: usedPorts holds exactly the ports of the containers in the pool and of
\* the creations still in flight: a creation that fails gives its port back and
\* no port stays reserved without a container.
C39_UsedPortsAreHeldPorts ==
    cs.usedPorts = {cs.cont[id].port : id \in Range(cs.pool) \cup cs.creating}

\* C40: the queue registries agree: an id that ipQueueMap gives for an IP is in
\* entries and its entry has that IP as clientIp, and ipQueueMap gives, for the
\* IP of every waiting entry, the id of that entry.
C40_QueueRegistriesAgree ==
    /\ \A ip \in IPs :
           qs.ipQueueMap[ip] /= 0
           => /\ qs.ipQueueMap[ip] \in qs.entries
              /\ qs.ent[qs.ipQueueMap[ip]].clientIp = ip
    /\ \A id \in Range(qs.queue) \cup qs.entries :
           qs.ent[id].status = "waiting" => qs.ipQueueMap[qs.ent[id].clientIp] = id

====
